---- MODULE Spec2Model ----
(***************************************************************************)
(* Concept-map scoring system: the proposition normaliser                  *)
(* (concept_map_core.py), the per-proposition rubric (McClure / Novak),    *)
(* the set-overlap rubric compare_links and the exhaustive matching        *)
(* solver (lea_core.py / wlea_core.py).                                    *)
(*                                                                         *)
(* Python strings are sequences of one-character strings, so that split,   *)
(* join, prefix tests, lower() and strip() are computed and not assumed.   *)
(* List indices in results are 0-based as in the source; a list element    *)
(* with Python index i is element i + 1 of the TLA+ sequence.              *)
(***************************************************************************)
EXTENDS Integers, Sequences, FiniteSets, TLC

VARIABLES
    pc,               \* the operation that produced the current results
    answers,          \* reference links of the matching solver (List[Link])
    students,         \* learner links of the matching solver (List[Link])
    matching,         \* the solver's 4-tuple result, as a record
    link_score,       \* result of one compare_links call
    answer_indices,   \* the reference indices of one _calculate_matching_score call
    student_indices,  \* the learner indices of one _calculate_matching_score call
    master_data,      \* BaseConceptMapScorer.master_data: raw reference rows
    student_data,     \* BaseConceptMapScorer.student_data: raw learner rows
    master_map,       \* BaseConceptMapScorer.master_map: expanded reference links
    student_map,      \* BaseConceptMapScorer.student_map: expanded learner links
    prop_score,       \* result of one score_proposition call
    student_node_id,  \* first argument of is_subset_match
    master_node_id,   \* second argument of is_subset_match
    subset_match,     \* result of one is_subset_match call
    warnings,         \* the logger.warning records of the normaliser, in order
    scorer,           \* the scorer instance: its class and instance attributes
    result,           \* the ScoringResult / metrics dict returned by the last call
    history,          \* the calls made so far: arguments and result
    f_args,           \* the arguments of one calculate_f_value call
    kwargs,           \* the options the scorer was constructed with (cross_link_score)
    algorithm_names,  \* the names passed to ParallelExecutor.execute_multiple
    files,            \* the rows of the master file and of the student file
    tasks,            \* the submitted execute_single calls: position and local variables
    heap,             \* the scorer objects constructed so far, by address
    results,          \* the ExecutionResults collected by execute_multiple, in order
    registry,         \* AlgorithmRegistry._algorithms: a dict, in insertion order
    instances         \* the number of algorithm objects constructed so far

solverVars == <<answers, students, matching, link_score, answer_indices, student_indices>>
scorerVars == <<master_data, student_data, master_map, student_map, prop_score>>
nodeVars == <<student_node_id, master_node_id, subset_match>>
logVars == <<warnings>>
execVars == <<algorithm_names, files, tasks, heap, results>>
registryVars == <<registry, instances>>
runVars == <<scorer, result, history, f_args, kwargs, execVars, registryVars>>

vars == <<pc, solverVars, scorerVars, nodeVars, logVars, runVars>>

Null == "null"

\* the parts of the state an operation under study does not use
IndicesIdle == answer_indices = <<>> /\ student_indices = <<>>
SolverIdle ==
    /\ answers = <<>> /\ students = <<>> /\ matching = Null /\ link_score = Null
    /\ IndicesIdle
ScorerIdle ==
    /\ master_data = <<>> /\ student_data = <<>>
    /\ master_map = <<>> /\ student_map = <<>> /\ prop_score = Null
NodesIdle == student_node_id = <<>> /\ master_node_id = <<>> /\ subset_match = Null
LogIdle == warnings = <<>>
ExecIdle ==
    /\ algorithm_names = <<>> /\ files = Null
    /\ tasks = <<>> /\ heap = <<>> /\ results = <<>>
RegistryIdle == registry = <<>> /\ instances = 0
RunIdle ==
    /\ scorer = Null /\ result = Null /\ history = <<>>
    /\ f_args = Null /\ kwargs = Null
    /\ ExecIdle
    /\ RegistryIdle

(***************************************************************************)
(* Generic sequence helpers                                                *)
(***************************************************************************)
Range(s) == {s[i] : i \in DOMAIN s}

RECURSIVE SeqsUpTo(_, _)
\* all sequences over S of length 0..n
SeqsUpTo(S, n) ==
    IF n = 0 THEN {<<>>}
    ELSE LET shorter == SeqsUpTo(S, n - 1)
         IN  shorter \cup {Append(s, x) : s \in {t \in shorter : Len(t) = n - 1}, x \in S}

Min2(a, b) == IF a <= b THEN a ELSE b
Max2(a, b) == IF a >= b THEN a ELSE b

\* Python range(n) as a list
PyRange(n) == [i \in 1..n |-> i - 1]

(***************************************************************************)
(* Rubric B: compare_links                                                 *)
(***************************************************************************)
Link(a, c, t) == [antes |-> a, conq |-> c, type |-> t]

\* a comparison that never looks at the labels
compare_links_label_blind(answer, student) ==
    IF answer.antes = student.antes /\ answer.conq = student.conq
    THEN 4
    ELSE IF answer.antes = student.conq /\ answer.conq = student.antes
    THEN 3
    ELSE IF (answer.antes \cap student.antes) # {} /\ (answer.conq \cap student.conq) # {}
    THEN 2
    ELSE IF (answer.antes \cap student.conq) # {} /\ (answer.conq \cap student.antes) # {}
    THEN 1
    ELSE 0

compare_links(answer, student) ==
    IF answer.antes = student.antes /\ answer.conq = student.conq
    THEN (IF answer.type = student.type THEN 4 ELSE 3)
    ELSE IF answer.antes = student.conq /\ answer.conq = student.antes
    THEN 3
    ELSE IF (answer.antes \cap student.antes) # {} /\ (answer.conq \cap student.conq) # {}
    THEN (IF answer.type = student.type THEN 2 ELSE 1)
    ELSE IF (answer.antes \cap student.conq) # {} /\ (answer.conq \cap student.antes) # {}
    THEN 1
    ELSE 0

(***************************************************************************)
(* itertools.combinations / itertools.permutations, in emission order      *)
(***************************************************************************)
RECURSIVE PrependAll(_, _)
PrependAll(x, ss) ==
    IF ss = <<>> THEN <<>>
    ELSE <<(<<x>> \o Head(ss))>> \o PrependAll(x, Tail(ss))

RECURSIVE CombinationsFrom(_, _, _)
\* ascending k-tuples of lo..n-1, lexicographic order
CombinationsFrom(lo, n, k) ==
    IF k = 0 THEN << <<>> >>
    ELSE IF lo > n - k THEN <<>>
    ELSE PrependAll(lo, CombinationsFrom(lo + 1, n, k - 1))
         \o CombinationsFrom(lo + 1, n, k)

combinations(n, k) == CombinationsFrom(0, n, k)

RemoveAt(s, i) == SubSeq(s, 1, i - 1) \o SubSeq(s, i + 1, Len(s))

RECURSIVE permutations(_)
RECURSIVE PermutationsPick(_, _)
\* permutations of s whose first element is s[i], s[i+1], ... in that order
PermutationsPick(s, i) ==
    IF i > Len(s) THEN <<>>
    ELSE PrependAll(s[i], permutations(RemoveAt(s, i))) \o PermutationsPick(s, i + 1)

permutations(s) == IF s = <<>> THEN << <<>> >> ELSE PermutationsPick(s, 1)

RECURSIVE Candidates(_)
\* for c in combinations: for p in permutations(c): ...   flattened
Candidates(combs) ==
    IF combs = <<>> THEN <<>>
    ELSE permutations(Head(combs)) \o Candidates(Tail(combs))

(***************************************************************************)
(* _calculate_matching_score                                               *)
(***************************************************************************)
\* list[idx]: an index in -len..len-1 names an element (a negative one
\* counts from the end), any other index raises IndexError
InList(list, idx) == -Len(list) <= idx /\ idx < Len(list)
GetItem(list, idx) == IF idx >= 0 THEN list[idx + 1] ELSE list[Len(list) + idx + 1]

RECURSIVE SumScores(_, _, _, _, _)
SumScores(ans, stu, ans_idx_list, stu_idx_list, i) ==
    IF i > Min2(Len(ans_idx_list), Len(stu_idx_list)) THEN 0
    ELSE compare_links(GetItem(ans, ans_idx_list[i]), GetItem(stu, stu_idx_list[i]))
         + SumScores(ans, stu, ans_idx_list, stu_idx_list, i + 1)

ZipPairs(ans_idx_list, stu_idx_list) ==
    [i \in 1..Min2(Len(ans_idx_list), Len(stu_idx_list)) |->
        <<ans_idx_list[i], stu_idx_list[i]>>]

\* the outcome of a call: an exception, or the returned (total_score, matching)
Raised(exception) == [raised |-> TRUE, exception |-> exception]
Returned(total_score, pairs) == [raised |-> FALSE, total_score |-> total_score, matching |-> pairs]

\* a score computation that records each pair as (learner, reference)
calculate_matching_score_swapped_pairs(ans, stu, ans_idx_list, stu_idx_list) ==
    Returned(SumScores(ans, stu, ans_idx_list, stu_idx_list, 1),
             ZipPairs(stu_idx_list, ans_idx_list))

\* wlea_core._calculate_matching_score: the zip stops at the shorter list, and
\* only the subscripts answers[ans_idx], students[stu_idx] can raise
calculate_matching_score(ans, stu, ans_idx_list, stu_idx_list) ==
    IF \E i \in 1..Min2(Len(ans_idx_list), Len(stu_idx_list)) :
           ~InList(ans, ans_idx_list[i]) \/ ~InList(stu, stu_idx_list[i])
    THEN Raised("IndexError")
    ELSE Returned(SumScores(ans, stu, ans_idx_list, stu_idx_list, 1),
                  ZipPairs(ans_idx_list, stu_idx_list))

\* lea_core._validate_indices: TRUE when no index raises
validate_indices(indices, max_index) ==
    \A i \in DOMAIN indices : ~(indices[i] < 0 \/ indices[i] >= max_index)

\* lea_core._calculate_matching_score: both index lists are validated first
lea_calculate_matching_score(ans, stu, ans_idx_list, stu_idx_list) ==
    IF ~validate_indices(ans_idx_list, Len(ans)) \/ ~validate_indices(stu_idx_list, Len(stu))
    THEN Raised("IndexError")
    ELSE calculate_matching_score(ans, stu, ans_idx_list, stu_idx_list)

MatchState(score, pairs, ai, si) ==
    [best_score |-> score, best_matching |-> pairs,
     best_answer_indices |-> ai, best_student_indices |-> si]

initialize_matching_state == MatchState(0, <<>>, <<>>, <<>>)

(***************************************************************************)
(* wlea_core: _find_best_matching_case1 / _find_best_matching_case2        *)
(***************************************************************************)
RECURSIVE Case1Loop(_, _, _, _, _)
Case1Loop(ans, stu, answer_range, cands, best) ==
    IF cands = <<>> THEN best
    ELSE LET student_perm == Head(cands)
             cur == calculate_matching_score(ans, stu, answer_range, student_perm)
             nxt == IF cur.total_score > best.best_score
                    THEN MatchState(cur.total_score, cur.matching, answer_range, student_perm)
                    ELSE best
         IN  Case1Loop(ans, stu, answer_range, Tail(cands), nxt)

\* a search that tries only the first combination of learner indices
find_best_matching_case1_first_combination(ans, stu, n_answers, answer_range, initial_best_score) ==
    Case1Loop(ans, stu, answer_range,
              permutations(PyRange(n_answers)),
              MatchState(initial_best_score, <<>>, <<>>, <<>>))

find_best_matching_case1(ans, stu, n_answers, answer_range, initial_best_score) ==
    Case1Loop(ans, stu, answer_range,
              Candidates(combinations(Len(stu), n_answers)),
              MatchState(initial_best_score, <<>>, <<>>, <<>>))

RECURSIVE Case2Loop(_, _, _, _, _)
Case2Loop(ans, stu, student_range, cands, best) ==
    IF cands = <<>> THEN best
    ELSE LET answer_perm == Head(cands)
             cur == calculate_matching_score(ans, stu, answer_perm, student_range)
             nxt == IF cur.total_score > best.best_score
                    THEN MatchState(cur.total_score, cur.matching, answer_perm, student_range)
                    ELSE best
         IN  Case2Loop(ans, stu, student_range, Tail(cands), nxt)

find_best_matching_case2(ans, stu, n_students, student_range, initial_best_score) ==
    Case2Loop(ans, stu, student_range,
              Candidates(combinations(Len(ans), n_students)),
              MatchState(initial_best_score, <<>>, <<>>, <<>>))

wlea_calculate_optimal_matching_bruteforce(ans, stu) ==
    LET n_answers == Len(ans)
        n_students == Len(stu)
    IN  IF n_answers = 0 \/ n_students = 0
        THEN MatchState(0, <<>>, <<>>, <<>>)
        ELSE IF n_answers <= n_students
        THEN find_best_matching_case1(ans, stu, n_answers, PyRange(n_answers), 0)
        ELSE find_best_matching_case2(ans, stu, n_students, PyRange(n_students), 0)

(***************************************************************************)
(* lea_core: _find_best_matching_generic                                   *)
(***************************************************************************)
RECURSIVE GenericLoop(_, _, _, _, _, _)
GenericLoop(ans, stu, fixed_indices, fixed_role, cands, best) ==
    IF cands = <<>> THEN best
    ELSE LET perm_indices == Head(cands)
             answer_idx_list == IF fixed_role = "answer" THEN fixed_indices ELSE perm_indices
             student_idx_list == IF fixed_role = "answer" THEN perm_indices ELSE fixed_indices
             cur == lea_calculate_matching_score(ans, stu, answer_idx_list, student_idx_list)
             nxt == IF cur.total_score > best.best_score
                    THEN MatchState(cur.total_score, cur.matching,
                                    answer_idx_list, student_idx_list)
                    ELSE best
         IN  GenericLoop(ans, stu, fixed_indices, fixed_role, Tail(cands), nxt)

\* a search that tries each combination in ascending order only
find_best_matching_generic_ascending_only(ans, stu, fixed_indices, selection_pool_size, selection_count, fixed_role, initial_best_score) ==
    GenericLoop(ans, stu, fixed_indices, fixed_role,
                combinations(selection_pool_size, selection_count),
                MatchState(initial_best_score, <<>>, <<>>, <<>>))

find_best_matching_generic(ans, stu, fixed_indices, selection_pool_size, selection_count, fixed_role, initial_best_score) ==
    GenericLoop(ans, stu, fixed_indices, fixed_role,
                Candidates(combinations(selection_pool_size, selection_count)),
                MatchState(initial_best_score, <<>>, <<>>, <<>>))

lea_calculate_optimal_matching_bruteforce(ans, stu) ==
    LET n_answers == Len(ans)
        n_students == Len(stu)
    IN  IF n_answers = 0 \/ n_students = 0
        THEN initialize_matching_state
        ELSE IF n_answers <= n_students
        THEN find_best_matching_generic(ans, stu, PyRange(n_answers), n_students,
                                        n_answers, "answer",
                                        initialize_matching_state.best_score)
        ELSE find_best_matching_generic(ans, stu, PyRange(n_students), n_answers,
                                        n_students, "student",
                                        initialize_matching_state.best_score)

(***************************************************************************)
(* Python str operations on sequences of one-character strings             *)
(***************************************************************************)
\* code points of the characters that occur in ids and labels
CharCode(c) ==
    CASE c = " " -> 32 [] c = "1" -> 49 [] c = "2" -> 50 [] c = "3" -> 51
      [] c = "4" -> 52
      [] c = "A" -> 65 [] c = "B" -> 66 [] c = "C" -> 67 [] c = "J" -> 74
      [] c = "M" -> 77 [] c = "_" -> 95
      [] c = "a" -> 97 [] c = "b" -> 98 [] c = "c" -> 99 [] c = "f" -> 102
      [] c = "i" -> 105 [] c = "j" -> 106 [] c = "m" -> 109 [] c = "n" -> 110
      [] c = "o" -> 111 [] c = "p" -> 112 [] c = "q" -> 113 [] c = "r" -> 114
      [] c = "t" -> 116 [] c = "u" -> 117 [] c = "x" -> 120

IsSpace(c) == c = " "

LowerChar(c) ==
    CASE c = "A" -> "a" [] c = "B" -> "b" [] c = "C" -> "c" [] c = "J" -> "j"
      [] c = "M" -> "m" [] OTHER -> c

\* str.lower()
Lower(s) == [i \in DOMAIN s |-> LowerChar(s[i])]

RECURSIVE LStrip(_)
LStrip(s) == IF s # <<>> /\ IsSpace(Head(s)) THEN LStrip(Tail(s)) ELSE s

RECURSIVE RStrip(_)
RStrip(s) ==
    IF s # <<>> /\ IsSpace(s[Len(s)]) THEN RStrip(SubSeq(s, 1, Len(s) - 1)) ELSE s

\* str.strip()
Strip(s) == RStrip(LStrip(s))

\* str.startswith(prefix)
StartsWith(s, prefix) ==
    Len(s) >= Len(prefix) /\ SubSeq(s, 1, Len(prefix)) = prefix

RECURSIVE SplitOn(_, _, _)
\* the pieces of s between separator characters, empty pieces included;
\* cur is the piece being read
SplitOn(s, sep, cur) ==
    IF s = <<>> THEN <<cur>>
    ELSE IF Head(s) = sep THEN <<cur>> \o SplitOn(Tail(s), sep, <<>>)
    ELSE SplitOn(Tail(s), sep, Append(cur, Head(s)))

\* str.split(sep): every piece, empty ones too
Split(s, sep) == SplitOn(s, sep, <<>>)

RECURSIVE NonEmpty(_)
\* filter(None, pieces) / the truthy elements of a list of strings
NonEmpty(pieces) ==
    IF pieces = <<>> THEN <<>>
    ELSE IF Head(pieces) = <<>> THEN NonEmpty(Tail(pieces))
    ELSE <<Head(pieces)>> \o NonEmpty(Tail(pieces))

\* str.split() without argument: runs of whitespace separate, no empty piece
SplitWhitespace(s) == NonEmpty(Split(s, " "))

RECURSIVE Join(_, _)
\* sep.join(parts)
Join(parts, sep) ==
    IF parts = <<>> THEN <<>>
    ELSE IF Len(parts) = 1 THEN parts[1]
    ELSE parts[1] \o sep \o Join(Tail(parts), sep)

RECURSIVE StrLess(_, _)
\* s < t on Python strings: lexicographic by code point
StrLess(s, t) ==
    IF t = <<>> THEN FALSE
    ELSE IF s = <<>> THEN TRUE
    ELSE IF CharCode(Head(s)) # CharCode(Head(t)) THEN CharCode(Head(s)) < CharCode(Head(t))
    ELSE StrLess(Tail(s), Tail(t))

RECURSIVE InsertSorted(_, _)
InsertSorted(x, sorted_list) ==
    IF sorted_list = <<>> THEN <<x>>
    ELSE IF StrLess(x, Head(sorted_list)) THEN <<x>> \o sorted_list
    ELSE <<Head(sorted_list)>> \o InsertSorted(x, Tail(sorted_list))

RECURSIVE Sorted(_)
\* sorted(list of str)
Sorted(l) == IF l = <<>> THEN <<>> ELSE InsertSorted(Head(l), Sorted(Tail(l)))

(***************************************************************************)
(* core/constants.py                                                       *)
(***************************************************************************)
NODE_ID_SEPARATOR == <<"_">>
JUNCTION_PREFIX_FROM == <<"t", "_", "f", "r", "o", "m", "_">>
JUNCTION_PREFIX_TO == <<"t", "_", "t", "o", "_">>
JUNCTION_TYPE == <<"J", "u", "n", "c", "t", "i", "o", "n">>
CONFLICT_LINK_TYPE == <<"c", "o", "n", "f", "l", "i", "c", "t">>

MCCLURE_PERFECT_MATCH == 3
MCCLURE_DIRECTION_MISMATCH == 2
MCCLURE_LABEL_MISMATCH == 1
MCCLURE_NO_MATCH == 0
NOVAK_PERFECT_MATCH == 3
NOVAK_NO_MATCH == 0

(***************************************************************************)
(* BaseConceptMapScorer: the proposition normaliser                        *)
(***************************************************************************)
\* a raw CSV row (PropositionData)
Row(id, antes, conq, type) == [id |-> id, antes |-> antes, conq |-> conq, type |-> type]

\* an expanded link (ExpandedProposition)
Expanded(id, original_id, is_expanded, antes, conq, type) ==
    [id |-> id, original_id |-> original_id, is_expanded |-> is_expanded,
     antes |-> antes, conq |-> conq, type |-> type]

normalize_ids(ids_string) ==
    IF ids_string = <<>> THEN <<>> ELSE Sorted(SplitWhitespace(ids_string))

\* a structure test that never reports many-to-many
is_many_to_many_never(prop, antes_ids, conq_ids) == FALSE

is_many_to_many(prop, antes_ids, conq_ids) ==
    Len(antes_ids) > 1 /\ Len(conq_ids) > 1

\* the logger.warning call of _is_many_to_many: the fields of its message
many_to_many_warning(prop) == [id |-> prop.id, antes |-> prop.antes, conq |-> prop.conq]

\* a many-to-one expansion that names the junction links' target after the
\* antecedents instead of the consequent
expand_many_to_one_wrong_junction(prop, antes_ids, conq_ids) ==
    LET junction_node == JUNCTION_PREFIX_TO \o Join(antes_ids, <<"_">>)
        main_node == JUNCTION_PREFIX_FROM \o Join(antes_ids, <<"_">>)
    IN  [expanded_props |->
            [i \in 1..Len(antes_ids) |->
                Expanded(prop.id \o <<"_">> \o antes_ids[i] \o <<"_", "A">>,
                         prop.id, TRUE, antes_ids[i], junction_node, JUNCTION_TYPE)],
         main_node |-> main_node]

expand_many_to_one(prop, antes_ids, conq_ids) ==
    LET conq_str == Join(conq_ids, <<"_">>)
        junction_node == JUNCTION_PREFIX_TO \o conq_str
        antes_str == Join(antes_ids, <<"_">>)
        main_node == JUNCTION_PREFIX_FROM \o antes_str
    IN  [expanded_props |->
            [i \in 1..Len(antes_ids) |->
                Expanded(prop.id \o <<"_">> \o antes_ids[i] \o <<"_", "A">>,
                         prop.id, TRUE, antes_ids[i], junction_node, JUNCTION_TYPE)],
         main_node |-> main_node]

\* a one-to-many expansion whose junction links run from the consequent into
\* the junction
expand_one_to_many_reversed_links(prop, antes_ids, conq_ids) ==
    LET main_node == JUNCTION_PREFIX_TO \o Join(conq_ids, <<"_">>)
        junction_node == JUNCTION_PREFIX_FROM \o Join(antes_ids, <<"_">>)
    IN  [expanded_props |->
            [i \in 1..Len(conq_ids) |->
                Expanded(prop.id \o <<"_">> \o conq_ids[i] \o <<"_", "C">>,
                         prop.id, TRUE, conq_ids[i], junction_node, JUNCTION_TYPE)],
         main_node |-> main_node]

expand_one_to_many(prop, antes_ids, conq_ids) ==
    LET conq_str == Join(conq_ids, <<"_">>)
        main_node == JUNCTION_PREFIX_TO \o conq_str
        antes_str == Join(antes_ids, <<"_">>)
        junction_node == JUNCTION_PREFIX_FROM \o antes_str
    IN  [expanded_props |->
            [i \in 1..Len(conq_ids) |->
                Expanded(prop.id \o <<"_">> \o conq_ids[i] \o <<"_", "C">>,
                         prop.id, TRUE, junction_node, conq_ids[i], JUNCTION_TYPE)],
         main_node |-> main_node]

\* a main link that takes the junction label instead of the proposition's
create_main_link_junction_label(prop, antes_node, conq_node, is_expanded) ==
    Expanded(IF is_expanded THEN prop.id \o <<"_", "M", "a", "i", "n">> ELSE prop.id,
             prop.id, is_expanded, antes_node, conq_node,
             IF is_expanded THEN JUNCTION_TYPE ELSE prop.type)

create_main_link(prop, antes_node, conq_node, is_expanded) ==
    Expanded(IF is_expanded THEN prop.id \o <<"_", "M", "a", "i", "n">> ELSE prop.id,
             prop.id, is_expanded, antes_node, conq_node, prop.type)

expand_proposition(prop) ==
    LET antes_ids == normalize_ids(prop.antes)
        conq_ids == normalize_ids(prop.conq)
    IN  IF antes_ids = <<>> \/ conq_ids = <<>> THEN <<>>
        ELSE IF is_many_to_many(prop, antes_ids, conq_ids) THEN <<>>
        ELSE LET is_antes_multi == Len(antes_ids) > 1
                 is_conq_multi == Len(conq_ids) > 1
                 m2o == expand_many_to_one(prop, antes_ids, conq_ids)
                 o2m == expand_one_to_many(prop, antes_ids, conq_ids)
                 expanded_props == IF is_antes_multi THEN m2o.expanded_props
                                   ELSE IF is_conq_multi THEN o2m.expanded_props
                                   ELSE <<>>
                 final_antes_node == IF is_antes_multi THEN m2o.main_node ELSE antes_ids[1]
                 final_conq_node == IF ~is_antes_multi /\ is_conq_multi
                                    THEN o2m.main_node ELSE conq_ids[1]
                 is_expanded == is_antes_multi \/ is_conq_multi
             IN  Append(expanded_props,
                        create_main_link(prop, final_antes_node, final_conq_node, is_expanded))

\* the warnings logged during one expand_proposition call
expand_proposition_warnings(prop) ==
    LET antes_ids == normalize_ids(prop.antes)
        conq_ids == normalize_ids(prop.conq)
    IN  IF antes_ids = <<>> \/ conq_ids = <<>> THEN <<>>
        ELSE IF is_many_to_many(prop, antes_ids, conq_ids)
        THEN <<many_to_many_warning(prop)>>
        ELSE <<>>

RECURSIVE process_map_data_warnings(_)
\* the warnings logged during the expansion loop of process_map_data
process_map_data_warnings(csv_data) ==
    IF csv_data = <<>> THEN <<>>
    ELSE (IF Head(csv_data).antes # <<>> /\ Head(csv_data).conq # <<>>
          THEN expand_proposition_warnings(Head(csv_data)) ELSE <<>>)
         \o process_map_data_warnings(Tail(csv_data))

RECURSIVE ExpandRows(_)
\* all_props after the loop over csv_data
ExpandRows(csv_data) ==
    IF csv_data = <<>> THEN <<>>
    ELSE (IF Head(csv_data).antes # <<>> /\ Head(csv_data).conq # <<>>
          THEN expand_proposition(Head(csv_data)) ELSE <<>>)
         \o ExpandRows(Tail(csv_data))

\* the deduplication key f"{antes}_{conq}_{type}"
DedupKey(prop) == prop.antes \o <<"_">> \o prop.conq \o <<"_">> \o prop.type

RECURSIVE UniqueProps(_, _, _)
\* unique_props.values(): the first link of each key, in insertion order
UniqueProps(all_props, keys, kept) ==
    IF all_props = <<>> THEN kept
    ELSE LET key == DedupKey(Head(all_props))
         IN  IF key \in keys
             THEN UniqueProps(Tail(all_props), keys, kept)
             ELSE UniqueProps(Tail(all_props), keys \cup {key}, Append(kept, Head(all_props)))

\* a map builder that skips the deduplication
process_map_data_no_dedup(csv_data) == ExpandRows(csv_data)

process_map_data(csv_data) == UniqueProps(ExpandRows(csv_data), {}, <<>>)

\* str(type_str or "").lower().strip()
normalize_type(type_str) == Strip(Lower(type_str))

\* (antes set, conq set) of a junction id; parsed = FALSE stands for the
\* (None, None) returned for an id without a junction prefix
extract_nodes_from_junction_id(node_id) ==
    IF StartsWith(node_id, JUNCTION_PREFIX_FROM)
    THEN LET nodes_part == SubSeq(node_id, Len(JUNCTION_PREFIX_FROM) + 1, Len(node_id))
         IN  [parsed |-> TRUE, antes |-> Range(NonEmpty(Split(nodes_part, "_"))), conq |-> {}]
    ELSE IF StartsWith(node_id, JUNCTION_PREFIX_TO)
    THEN LET nodes_part == SubSeq(node_id, Len(JUNCTION_PREFIX_TO) + 1, Len(node_id))
         IN  [parsed |-> TRUE, antes |-> {}, conq |-> Range(NonEmpty(Split(nodes_part, "_")))]
    ELSE [parsed |-> FALSE, antes |-> {}, conq |-> {}]

\* a subset test that compares from- and to-junctions with each other
is_subset_match_any_kind(student_id, master_id) ==
    LET student == extract_nodes_from_junction_id(student_id)
        master == extract_nodes_from_junction_id(master_id)
    IN  IF ~student.parsed \/ ~master.parsed THEN FALSE
        ELSE IF student.antes = {} /\ student.conq = {} THEN FALSE
        ELSE IF master.antes = {} /\ master.conq = {} THEN FALSE
        ELSE (student.antes \cup student.conq) \subseteq (master.antes \cup master.conq)

is_subset_match(student_id, master_id) ==
    LET student == extract_nodes_from_junction_id(student_id)
        master == extract_nodes_from_junction_id(master_id)
    IN  IF ~student.parsed \/ ~master.parsed THEN FALSE
        ELSE IF student.antes = {} /\ student.conq = {} THEN FALSE
        ELSE IF master.antes = {} /\ master.conq = {} THEN FALSE
        ELSE IF student.antes # {} /\ master.antes # {}
        THEN student.antes \subseteq master.antes
        ELSE IF student.conq # {} /\ master.conq # {}
        THEN student.conq \subseteq master.conq
        ELSE FALSE

nodes_match(student_antes, student_conq, master_antes, master_conq) ==
    LET antes_match == student_antes = master_antes
                       \/ is_subset_match(student_antes, master_antes)
        conq_match == student_conq = master_conq
                      \/ is_subset_match(student_conq, master_conq)
    IN  antes_match /\ conq_match

(***************************************************************************)
(* Rubric A: McClureScorer / NovakScorer score_proposition                 *)
(***************************************************************************)
RECURSIVE FirstIndex(_, _)
\* the first index i >= from at which hits[i] holds, 0 if none: a for loop
\* over the list that returns at its first hit
FirstIndex(hits, from) ==
    IF from > Len(hits) THEN 0
    ELSE IF hits[from] THEN from
    ELSE FirstIndex(hits, from + 1)

\* a McClure rubric that tests the label-blind rule before the reversed rule
mcclure_score_proposition_label_rule_first(student_prop, master_map_arg) ==
    LET student_type == normalize_type(student_prop.type)
        perfect(m) == normalize_type(m.type) = student_type
                      /\ nodes_match(student_prop.antes, student_prop.conq, m.antes, m.conq)
        reversed(m) == normalize_type(m.type) = student_type
                       /\ nodes_match(student_prop.antes, student_prop.conq, m.conq, m.antes)
        nodes_only(m) == nodes_match(student_prop.antes, student_prop.conq, m.antes, m.conq)
    IN  IF \E i \in DOMAIN master_map_arg : perfect(master_map_arg[i])
        THEN MCCLURE_PERFECT_MATCH
        ELSE IF \E i \in DOMAIN master_map_arg : nodes_only(master_map_arg[i])
        THEN MCCLURE_LABEL_MISMATCH
        ELSE IF \E i \in DOMAIN master_map_arg : reversed(master_map_arg[i])
        THEN MCCLURE_DIRECTION_MISMATCH
        ELSE MCCLURE_NO_MATCH

\* a McClure rubric that grades against the first reference link matching in
\* any way, whatever later links would give
mcclure_score_proposition_first_hit(student_prop, master_map_arg) ==
    LET student_type == normalize_type(student_prop.type)
        perfect(m) == normalize_type(m.type) = student_type
                      /\ nodes_match(student_prop.antes, student_prop.conq, m.antes, m.conq)
        reversed(m) == normalize_type(m.type) = student_type
                       /\ nodes_match(student_prop.antes, student_prop.conq, m.conq, m.antes)
        nodes_only(m) == nodes_match(student_prop.antes, student_prop.conq, m.antes, m.conq)
        tier(m) == IF perfect(m) THEN MCCLURE_PERFECT_MATCH
                   ELSE IF reversed(m) THEN MCCLURE_DIRECTION_MISMATCH
                   ELSE IF nodes_only(m) THEN MCCLURE_LABEL_MISMATCH
                   ELSE MCCLURE_NO_MATCH
        first == FirstIndex([i \in DOMAIN master_map_arg |->
                                tier(master_map_arg[i]) # MCCLURE_NO_MATCH], 1)
    IN  IF first = 0 THEN MCCLURE_NO_MATCH ELSE tier(master_map_arg[first])

mcclure_score_proposition(student_prop, master_map_arg) ==
    LET student_type == normalize_type(student_prop.type)
        student_antes == student_prop.antes
        student_conq == student_prop.conq
        perfect(m) == normalize_type(m.type) = student_type
                      /\ nodes_match(student_antes, student_conq, m.antes, m.conq)
        reversed(m) == normalize_type(m.type) = student_type
                       /\ nodes_match(student_antes, student_conq, m.conq, m.antes)
        nodes_only(m) == nodes_match(student_antes, student_conq, m.antes, m.conq)
    IN  IF FirstIndex([i \in DOMAIN master_map_arg |-> perfect(master_map_arg[i])], 1) # 0 THEN MCCLURE_PERFECT_MATCH
        ELSE IF FirstIndex([i \in DOMAIN master_map_arg |-> reversed(master_map_arg[i])], 1) # 0 THEN MCCLURE_DIRECTION_MISMATCH
        ELSE IF FirstIndex([i \in DOMAIN master_map_arg |-> nodes_only(master_map_arg[i])], 1) # 0 THEN MCCLURE_LABEL_MISMATCH
        ELSE MCCLURE_NO_MATCH

\* a Novak rubric that never gives credit to a link labelled 'conflict'
novak_score_proposition_conflict_zero(student_prop, master_map_arg) ==
    LET student_type == normalize_type(student_prop.type)
        perfect(m) == normalize_type(m.type) = student_type
                      /\ nodes_match(student_prop.antes, student_prop.conq, m.antes, m.conq)
    IN  IF student_type # CONFLICT_LINK_TYPE /\ \E i \in DOMAIN master_map_arg : perfect(master_map_arg[i])
        THEN NOVAK_PERFECT_MATCH
        ELSE NOVAK_NO_MATCH

novak_score_proposition(student_prop, master_map_arg) ==
    LET student_type == normalize_type(student_prop.type)
        perfect(m) == normalize_type(m.type) = student_type
                      /\ nodes_match(student_prop.antes, student_prop.conq, m.antes, m.conq)
    IN  IF FirstIndex([i \in DOMAIN master_map_arg |-> perfect(master_map_arg[i])], 1) # 0 THEN NOVAK_PERFECT_MATCH
        ELSE NOVAK_NO_MATCH

(***************************************************************************)
(* wlea_core / lea_core: create_links_from_csv                             *)
(***************************************************************************)
\* the row filter: rows with an empty antes or conq are skipped
RECURSIVE FilterRows(_)
FilterRows(rows) ==
    IF rows = <<>> THEN <<>>
    ELSE (IF Head(rows).antes # <<>> /\ Head(rows).conq # <<>> THEN <<Head(rows)>> ELSE <<>>)
         \o FilterRows(Tail(rows))

create_links_from_csv(rows) ==
    LET kept == FilterRows(rows)
    IN  [i \in 1..Len(kept) |->
            Link(Range(SplitWhitespace(kept[i].antes)), {kept[i].conq}, kept[i].type)]

(***************************************************************************)
(* Scores and metrics: score_all of McClureScorer and NovakScorer          *)
(***************************************************************************)
NOVAK_LIMITATION_BONUS == 4

\* a float that results from one division, kept as the exact quotient
Rat(n, d) == [num |-> n, den |-> d]
\* the literal 0.0
RatZero == Rat(0, 1)
RatEq(a, b) == a.num * b.den = b.num * a.den
RatLeq(a, b) == a.num * b.den <= b.num * a.den

\* (2 * precision * recall / (precision + recall)) if (precision + recall) > 0
\* else 0.0
harmonic_mean(precision, recall) ==
    LET sum_num == precision.num * recall.den + recall.num * precision.den
    IN  IF sum_num > 0 THEN Rat(2 * precision.num * recall.num, sum_num) ELSE RatZero

\* sum(...) over a list: the first n elements, then all of them
RECURSIVE SumFirst(_, _)
SumFirst(s, n) == IF n = 0 THEN 0 ELSE SumFirst(s, n - 1) + s[n]
SumSeq(s) == SumFirst(s, Len(s))

\* the one element of a singleton: binds a computed value once, as an
\* assignment to a local variable does
The(S) == CHOOSE x \in S : TRUE

\* an optional argument: None, or a list that was passed
None == [given |-> FALSE, value |-> <<>>]
Some(v) == [given |-> TRUE, value |-> v]

\* metrics that divide without looking at the counts
base_calculate_metrics_unguarded(matched_count, student_count, master_count) ==
    LET precision == Rat(matched_count, student_count)
        recall == Rat(matched_count, master_count)
    IN  [precision |-> precision, recall |-> recall,
         f_value |-> harmonic_mean(precision, recall)]

\* BaseConceptMapScorer.calculate_metrics
base_calculate_metrics(matched_count, student_count, master_count) ==
    LET precision == IF student_count > 0 THEN Rat(matched_count, student_count) ELSE RatZero
        recall == IF master_count > 0 THEN Rat(matched_count, master_count) ELSE RatZero
    IN  [precision |-> precision, recall |-> recall,
         f_value |-> harmonic_mean(precision, recall)]

\* a scorer instance: its class and, for NovakScorer, cross_link_point_per_item
\* and the two attributes score_all stores (has_current is FALSE until then)
ScorerInstance(kind, per_item, has_current, limitation, cross_link) ==
    [kind |-> kind, cross_link_point_per_item |-> per_item, has_current |-> has_current,
     current_limitation_score |-> limitation, current_cross_link_score |-> cross_link]

\* McClureScorer()
new_mcclure_scorer == ScorerInstance("McClure", 0, FALSE, 0, 0)

\* a NovakScorer that takes the option as it is given
new_novak_scorer_unclamped(option) == ScorerInstance("Novak", option, FALSE, 0, 0)

\* NovakScorer(cross_link_score): max(0, min(4, cross_link_score))
new_novak_scorer(option) ==
    ScorerInstance("Novak", Max2(0, Min2(4, option)), FALSE, 0, 0)

\* metrics that put the conflict bonus into the reference denominator as well
novak_calculate_metrics_cross_in_master(self, matched_count, student_count, master_count) ==
    LET limitation_score == IF self.has_current THEN self.current_limitation_score ELSE 0
        cross_link_score == IF self.has_current THEN self.current_cross_link_score ELSE 0
        proposition_score == matched_count * NOVAK_PERFECT_MATCH
        total_earned_score == proposition_score + limitation_score + cross_link_score
        student_max_score == student_count * NOVAK_PERFECT_MATCH
                             + limitation_score + cross_link_score
        master_max_score == master_count * NOVAK_PERFECT_MATCH
                            + limitation_score + cross_link_score
        precision == IF student_max_score > 0
                     THEN Rat(total_earned_score, student_max_score) ELSE RatZero
        recall_score == proposition_score + limitation_score
        recall == IF master_max_score > 0 THEN Rat(recall_score, master_max_score) ELSE RatZero
    IN  [precision |-> precision, recall |-> recall,
         f_value |-> harmonic_mean(precision, recall)]

\* NovakScorer.calculate_metrics; getattr(self, ..., 0) reads the stored scores
novak_calculate_metrics(self, matched_count, student_count, master_count) ==
    LET limitation_score == IF self.has_current THEN self.current_limitation_score ELSE 0
        cross_link_score == IF self.has_current THEN self.current_cross_link_score ELSE 0
        proposition_score == matched_count * NOVAK_PERFECT_MATCH
        total_earned_score == proposition_score + limitation_score + cross_link_score
        student_max_score == student_count * NOVAK_PERFECT_MATCH
                             + limitation_score + cross_link_score
        master_max_score == master_count * NOVAK_PERFECT_MATCH + limitation_score
        precision == IF student_max_score > 0
                     THEN Rat(total_earned_score, student_max_score) ELSE RatZero
        recall_score == proposition_score + limitation_score
        recall == IF master_max_score > 0 THEN Rat(recall_score, master_max_score) ELSE RatZero
    IN  [precision |-> precision, recall |-> recall,
         f_value |-> harmonic_mean(precision, recall)]

count_conflicts(student_map_arg) ==
    Cardinality({i \in DOMAIN student_map_arg :
                    normalize_type(student_map_arg[i].type) = CONFLICT_LINK_TYPE})

\* a count that takes every proposition with more than one id on some side
count_limitations_any_multi(original_data) ==
    Cardinality({i \in DOMAIN original_data :
        LET antes_ids == normalize_ids(original_data[i].antes)
            conq_ids == normalize_ids(original_data[i].conq)
        IN  /\ antes_ids # <<>>
            /\ conq_ids # <<>>
            /\ Len(antes_ids) > 1 \/ Len(conq_ids) > 1})

count_limitations(original_data) ==
    Cardinality({i \in DOMAIN original_data :
        LET antes_ids == normalize_ids(original_data[i].antes)
            conq_ids == normalize_ids(original_data[i].conq)
            is_antes_multi == Len(antes_ids) > 1
            is_conq_multi == Len(conq_ids) > 1
        IN  /\ antes_ids # <<>>
            /\ conq_ids # <<>>
            /\ (is_antes_multi /\ ~is_conq_multi) \/ (~is_antes_multi /\ is_conq_multi)})

\* score_proposition of the scorer's class
score_proposition(self, student_prop, master_map_arg) ==
    IF self.kind = "Novak" THEN novak_score_proposition(student_prop, master_map_arg)
    ELSE mcclure_score_proposition(student_prop, master_map_arg)

get_perfect_match_score(self) ==
    IF self.kind = "Novak" THEN NOVAK_PERFECT_MATCH ELSE MCCLURE_PERFECT_MATCH

\* SimplePropositionScorer._score_propositions; score_counts holds a
\* (score, count) pair for every score that occurred
score_propositions(self, student_map_arg, master_map_arg) ==
    LET perfect_match_score == get_perfect_match_score(self)
    IN  The({ [results |-> scores,
               score_counts |-> {<<v, Cardinality({i \in DOMAIN scores : scores[i] = v})>> :
                                    v \in Range(scores)},
               proposition_score |-> SumSeq(scores),
               matched_count |-> Cardinality({i \in DOMAIN scores :
                                                 scores[i] = perfect_match_score}),
               perfect_match_score |-> perfect_match_score] :
              scores \in {[i \in DOMAIN student_map_arg |->
                             score_proposition(self, student_map_arg[i], master_map_arg)]} })

\* calculate_additional_score: 0 in the base class, the limitation bonus in
\* NovakScorer (student_original_data or [])
calculate_additional_score(self, student_map_arg, student_original_data) ==
    IF self.kind = "Novak"
    THEN count_limitations(student_original_data) * NOVAK_LIMITATION_BONUS
    ELSE 0

calculate_final_scores(proposition_score, additional_score, student_count, perfect_match_score) ==
    LET total_score == proposition_score + additional_score
        max_score == student_count * perfect_match_score + additional_score
    IN  [total_score |-> total_score, max_score |-> max_score,
         percentage |-> IF max_score > 0 THEN Rat(total_score * 100, max_score) ELSE RatZero]

calculate_metrics(self, matched_count, student_count, master_count) ==
    IF self.kind = "Novak"
    THEN novak_calculate_metrics(self, matched_count, student_count, master_count)
    ELSE base_calculate_metrics(matched_count, student_count, master_count)

\* what the scorer holds after load_data
Loaded(sm, mm, sd) == [student_map |-> sm, master_map |-> mm, student_data |-> sd]

\* the three optional arguments of score_all
Args(sm, mm, sd) == [student_map |-> sm, master_map |-> mm, student_original_data |-> sd]

\* _resolve_parameters: value or self.value
resolve_parameters(loaded, args) ==
    [student_map |-> IF args.student_map.value # <<>>
                     THEN args.student_map.value ELSE loaded.student_map,
     master_map |-> IF args.master_map.value # <<>>
                    THEN args.master_map.value ELSE loaded.master_map,
     student_data |-> IF args.student_original_data.value # <<>>
                      THEN args.student_original_data.value ELSE loaded.student_data]

\* SimplePropositionScorer.score_all with _build_scoring_result; the two
\* additional_info entries are NovakScorer's (an empty dict in the base class)
simple_score_all(self, loaded, args) ==
    LET resolved == resolve_parameters(loaded, args)
        student_count == Len(resolved.student_map)
        master_count == Len(resolved.master_map)
        additional_score == calculate_additional_score(self, resolved.student_map,
                                                       resolved.student_data)
    IN  The({ LET final_scores == calculate_final_scores(
                      scoring_stats.proposition_score, additional_score,
                      student_count, scoring_stats.perfect_match_score)
                  metrics == calculate_metrics(self, scoring_stats.matched_count,
                                               student_count, master_count)
              IN  [results |-> scoring_stats.results,
                   score_counts |-> scoring_stats.score_counts,
                   total_props |-> student_count,
                   proposition_score |-> scoring_stats.proposition_score,
                   master_props |-> master_count,
                   student_props |-> student_count,
                   total_score |-> final_scores.total_score,
                   max_score |-> final_scores.max_score,
                   percentage |-> final_scores.percentage,
                   precision |-> metrics.precision,
                   recall |-> metrics.recall,
                   f_value |-> metrics.f_value,
                   limitation_count |-> IF self.kind = "Novak"
                                        THEN count_limitations(resolved.student_data) ELSE 0,
                   limitation_score |-> additional_score] :
              scoring_stats \in {score_propositions(self, resolved.student_map,
                                                    resolved.master_map)} })

\* McClureScorer.score_all: the scorer is left as it was
mcclure_score_all(self, loaded, args) ==
    The({ [self |-> self,
           result |-> [method |-> "McClure",
                       results |-> base.results,
                       score_counts |-> base.score_counts,
                       total_props |-> base.total_props,
                       proposition_score |-> base.proposition_score,
                       master_props |-> base.master_props,
                       student_props |-> base.student_props,
                       total_score |-> base.total_score,
                       max_score |-> base.max_score,
                       percentage |-> base.percentage,
                       precision |-> base.precision,
                       recall |-> base.recall,
                       f_value |-> base.f_value,
                       matched_count |-> 0]] :
          base \in {simple_score_all(self, loaded, args)} })

\* NovakScorer.score_all up to the call of the base score_all: resolves None
\* itself and stores the two bonus scores of this call on the scorer
novak_score_all_begin(self, loaded, args) ==
    LET student_map_arg == IF args.student_map.given
                           THEN args.student_map.value ELSE loaded.student_map
        master_map_arg == IF args.master_map.given
                          THEN args.master_map.value ELSE loaded.master_map
        student_original_data == IF args.student_original_data.given
                                 THEN args.student_original_data.value
                                 ELSE loaded.student_data
        limitation_count == count_limitations(student_original_data)
        conflict_count == count_conflicts(student_map_arg)
        cross_link_score == conflict_count * self.cross_link_point_per_item
    IN  [student_map |-> student_map_arg,
         master_map |-> master_map_arg,
         student_original_data |-> student_original_data,
         conflict_count |-> conflict_count,
         cross_link_score |-> cross_link_score,
         self |-> ScorerInstance(self.kind, self.cross_link_point_per_item, TRUE,
                                 limitation_count * NOVAK_LIMITATION_BONUS, cross_link_score)]

\* NovakScorer.score_all from the call of the base score_all on: self is the
\* scorer as it is at that moment, locals are the local variables
novak_score_all_finish(self, loaded, locals) ==
    The({ [method |-> "Novak",
           results |-> base.results,
           score_counts |-> base.score_counts,
           total_props |-> base.total_props,
           proposition_score |-> base.proposition_score,
           master_props |-> base.master_props,
           student_props |-> base.student_props,
           total_score |-> base.total_score + locals.cross_link_score,
           max_score |-> base.max_score,
           percentage |-> base.percentage,
           precision |-> base.precision,
           recall |-> base.recall,
           f_value |-> base.f_value,
           limitation_count |-> base.limitation_count,
           limitation_score |-> base.limitation_score,
           conflict_count |-> locals.conflict_count,
           cross_link_point_per_item |-> self.cross_link_point_per_item,
           cross_link_score |-> locals.cross_link_score,
           total_proposition_score |-> base.proposition_score,
           final_total_score |-> base.total_score + locals.cross_link_score,
           matched_count |-> 0] :
          base \in {simple_score_all(self, loaded,
                        Args(Some(locals.student_map), Some(locals.master_map),
                             Some(locals.student_original_data)))} })

\* a score_all that calls the base score_all before the two bonus scores of
\* this call are stored, so that calculate_metrics reads what the scorer held
novak_score_all_stale_scores(self, loaded, args) ==
    LET locals == novak_score_all_begin(self, loaded, args)
    IN  [self |-> locals.self, result |-> novak_score_all_finish(self, loaded, locals)]

\* NovakScorer.score_all
novak_score_all(self, loaded, args) ==
    LET locals == novak_score_all_begin(self, loaded, args)
    IN  [self |-> locals.self, result |-> novak_score_all_finish(locals.self, loaded, locals)]

\* score_all of the scorer's class
score_all(self, loaded, args) ==
    IF self.kind = "Novak" THEN novak_score_all(self, loaded, args)
    ELSE mcclure_score_all(self, loaded, args)

(***************************************************************************)
(* The matching solver applied to drawn reference / learner link lists     *)
(***************************************************************************)
MaxLinks == 3

\* reference and learner links; the six pairs produce every score 0..4, and
\* the first reference link scores 0 against the last learner link
AnswerPool ==
    { Link({"A"}, {"B"}, "causes"),
      Link({"A", "C"}, {"B", "D"}, "causes") }

StudentPool ==
    { Link({"A"}, {"B"}, "causes"),
      Link({"A"}, {"B"}, "wrong"),
      Link({"C"}, {"D"}, "causes") }

InitMatch ==
    /\ pc = "init"
    /\ LogIdle
    /\ RunIdle
    /\ answers \in SeqsUpTo(AnswerPool, MaxLinks)
    /\ students \in SeqsUpTo(StudentPool, MaxLinks)
    /\ matching = Null
    /\ link_score = Null
    /\ IndicesIdle
    /\ ScorerIdle
    /\ NodesIdle

WleaMatch ==
    /\ pc = "init"
    /\ pc' = "wlea"
    /\ matching' = wlea_calculate_optimal_matching_bruteforce(answers, students)
    /\ UNCHANGED <<answers, students, link_score, answer_indices, student_indices, scorerVars, nodeVars, logVars, runVars>>

LeaMatch ==
    /\ pc = "init"
    /\ pc' = "lea"
    /\ matching' = lea_calculate_optimal_matching_bruteforce(answers, students)
    /\ UNCHANGED <<answers, students, link_score, answer_indices, student_indices, scorerVars, nodeVars, logVars, runVars>>

NextMatch == WleaMatch \/ LeaMatch

SpecMatch == InitMatch /\ [][NextMatch]_vars

(***************************************************************************)
(* compare_links applied to one drawn pair of links                        *)
(***************************************************************************)
LinkNodes == {"A", "B", "C"}
LinkTypes == {"causes", "wrong"}
AllLinks == {Link(a, c, t) : a \in SUBSET LinkNodes, c \in SUBSET LinkNodes, t \in LinkTypes}

InitCompare ==
    /\ pc = "init"
    /\ LogIdle
    /\ RunIdle
    /\ answers \in {<<l>> : l \in AllLinks}
    /\ students \in {<<l>> : l \in AllLinks}
    /\ matching = Null
    /\ link_score = Null
    /\ IndicesIdle
    /\ ScorerIdle
    /\ NodesIdle

CompareLinks ==
    /\ pc = "init"
    /\ pc' = "compare_links"
    /\ link_score' = compare_links(answers[1], students[1])
    /\ UNCHANGED <<answers, students, matching, answer_indices, student_indices, scorerVars, nodeVars, logVars, runVars>>

NextCompare == CompareLinks

SpecCompare == InitCompare /\ [][NextCompare]_vars

(***************************************************************************)
(* expand_proposition applied to one drawn raw proposition                 *)
(***************************************************************************)
MaxAntes == 3
MaxConq == 2

\* node ids as they appear in the antes / conq columns; one contains the
\* separator character
IdPool == { <<"1">>, <<"2">>, <<"1", "_", "2">> }
TypePool == { <<"x">>, <<"a">> }

\* a column value: node ids separated by single spaces
IdStrings(n) == {Join(toks, <<" ">>) : toks \in SeqsUpTo(IdPool, n)}

InitExpand ==
    /\ pc = "init"
    /\ LogIdle
    /\ RunIdle
    /\ student_data \in {<<Row(<<"p">>, a, c, t)>> :
                            a \in IdStrings(MaxAntes), c \in IdStrings(MaxConq), t \in TypePool}
    /\ master_data = <<>>
    /\ master_map = <<>>
    /\ student_map = <<>>
    /\ prop_score = Null
    /\ SolverIdle
    /\ NodesIdle

ExpandProposition ==
    /\ pc = "init"
    /\ pc' = "expand_proposition"
    /\ student_map' = expand_proposition(student_data[1])
    /\ warnings' = warnings \o expand_proposition_warnings(student_data[1])
    /\ UNCHANGED <<master_data, student_data, master_map, prop_score, solverVars, nodeVars, runVars>>

NextExpand == ExpandProposition

SpecExpand == InitExpand /\ [][NextExpand]_vars

(***************************************************************************)
(* process_map_data applied to a drawn list of raw propositions            *)
(***************************************************************************)
MaxRows == 3

S1 == <<"1">>
S2 == <<"2">>
S3 == <<"3">>
TypeX == <<"x">>

\* one-to-one, a repeated proposition, many-to-one (twice, sharing their
\* junction links), a repeated antecedent, one-to-many, many-to-many, an
\* empty column and two propositions whose ids contain the separator
RowPool ==
    { Row(<<"p", "1">>, S1, S2, TypeX),
      Row(<<"p", "2">>, S1, S2, TypeX),
      Row(<<"p", "3">>, <<"1", " ", "2">>, S3, TypeX),
      Row(<<"p", "4">>, <<"2", " ", "1">>, S3, <<"a">>),
      Row(<<"p", "5">>, <<"1", " ", "1">>, S3, TypeX),
      Row(<<"p", "6">>, S1, <<"2", " ", "3">>, TypeX),
      Row(<<"p", "7">>, <<"1", " ", "2">>, <<"2", " ", "3">>, TypeX),
      Row(<<"p", "8">>, <<>>, S2, TypeX),
      Row(<<"p", "9">>, <<"1", "_", "2">>, S3, TypeX),
      Row(<<"q", "1">>, S1, <<"2", "_", "3">>, TypeX) }

InitMap ==
    /\ pc = "init"
    /\ LogIdle
    /\ RunIdle
    /\ student_data \in SeqsUpTo(RowPool, MaxRows)
    /\ master_data = <<>>
    /\ master_map = <<>>
    /\ student_map = <<>>
    /\ prop_score = Null
    /\ SolverIdle
    /\ NodesIdle

ProcessMapData ==
    /\ pc = "init"
    /\ pc' = "process_map_data"
    /\ student_map' = process_map_data(student_data)
    /\ warnings' = warnings \o process_map_data_warnings(student_data)
    /\ UNCHANGED <<master_data, student_data, master_map, prop_score, solverVars, nodeVars, runVars>>

NextMap == ProcessMapData

SpecMap == InitMap /\ [][NextMap]_vars

(***************************************************************************)
(* score_proposition applied to a drawn learner link and reference map     *)
(***************************************************************************)
MaxMaster == 2

T_FROM_1 == JUNCTION_PREFIX_FROM \o <<"1">>
T_FROM_1_2 == JUNCTION_PREFIX_FROM \o <<"1", "_", "2">>

StudentNodePool == { S1, S2, T_FROM_1, T_FROM_1_2 }
StudentTypePool == { <<"a">>, <<"A", " ">>, CONFLICT_LINK_TYPE }
MasterNodePool == { S1, T_FROM_1_2 }
MasterTypePool == { <<"a">>, CONFLICT_LINK_TYPE }

StudentLinks ==
    { Expanded(<<"p">>, <<"p">>, FALSE, a, c, t) :
        a \in StudentNodePool, c \in StudentNodePool, t \in StudentTypePool }
MasterLinks ==
    { Expanded(<<"q">>, <<"q">>, FALSE, a, c, t) :
        a \in MasterNodePool, c \in MasterNodePool, t \in MasterTypePool }

InitRubricA ==
    /\ pc = "loaded"
    /\ LogIdle
    /\ RunIdle
    /\ student_map \in {<<l>> : l \in StudentLinks}
    /\ master_map \in SeqsUpTo(MasterLinks, MaxMaster)
    /\ master_data = <<>>
    /\ student_data = <<>>
    /\ prop_score = Null
    /\ SolverIdle
    /\ NodesIdle

\* McClureScorer: score_proposition for every learner link, as in the loop
\* of _score_propositions
ScoreMcClure ==
    /\ pc = "loaded"
    /\ pc' = "mcclure"
    /\ prop_score' = [i \in DOMAIN student_map |->
                         mcclure_score_proposition(student_map[i], master_map)]
    /\ UNCHANGED <<master_data, student_data, master_map, student_map, solverVars, nodeVars, logVars, runVars>>

\* NovakScorer: the same loop with Novak's score_proposition
ScoreNovak ==
    /\ pc = "loaded"
    /\ pc' = "novak"
    /\ prop_score' = [i \in DOMAIN student_map |->
                         novak_score_proposition(student_map[i], master_map)]
    /\ UNCHANGED <<master_data, student_data, master_map, student_map, solverVars, nodeVars, logVars, runVars>>

NextRubricA == ScoreMcClure \/ ScoreNovak

SpecRubricA == InitRubricA /\ [][NextRubricA]_vars

(***************************************************************************)
(* is_subset_match applied to a drawn pair of node ids                     *)
(***************************************************************************)
MaxJunctionNodes == 2

\* junction ids over up to MaxJunctionNodes node ids (the bare prefixes
\* included), plain node ids and ids with an unrecognised prefix
NodeIdPool ==
    { prefix \o Join(toks, <<"_">>) :
        prefix \in {JUNCTION_PREFIX_FROM, JUNCTION_PREFIX_TO},
        toks \in SeqsUpTo({S1, S2, S3}, MaxJunctionNodes) }
    \cup { S1, S3, <<"t", "_", "1">>, <<"f", "r", "o", "m", "_", "1">> }

InitSubset ==
    /\ pc = "init"
    /\ LogIdle
    /\ RunIdle
    /\ student_node_id \in NodeIdPool
    /\ master_node_id \in NodeIdPool
    /\ subset_match = Null
    /\ SolverIdle
    /\ ScorerIdle

IsSubsetMatch ==
    /\ pc = "init"
    /\ pc' = "is_subset_match"
    /\ subset_match' = is_subset_match(student_node_id, master_node_id)
    /\ UNCHANGED <<student_node_id, master_node_id, solverVars, scorerVars, logVars, runVars>>

NextSubset == IsSubsetMatch

SpecSubset == InitSubset /\ [][NextSubset]_vars

(***************************************************************************)
(* Label handling: the same pair of rows through Rubric A and Rubric B     *)
(***************************************************************************)
\* labels that differ in case and in surrounding whitespace, and one that
\* differs in a letter
LabelPool == { <<"a">>, <<"A">>, <<" ", "a">>, <<"b">> }

LabelRows ==
    { Row(<<"p">>, a, c, t) :
        a \in {S1, <<"1", " ", "2">>}, c \in {S2, S3}, t \in LabelPool }

InitLabels ==
    /\ pc = "init"
    /\ LogIdle
    /\ RunIdle
    /\ master_data \in {<<r>> : r \in LabelRows}
    /\ student_data \in {<<r>> : r \in LabelRows}
    /\ master_map = <<>>
    /\ student_map = <<>>
    /\ prop_score = Null
    /\ SolverIdle
    /\ NodesIdle

\* BaseConceptMapScorer.load_data, after both files are read
LoadData ==
    /\ pc = "init"
    /\ pc' = "loaded"
    /\ master_map' = process_map_data(master_data)
    /\ student_map' = process_map_data(student_data)
    /\ warnings' = warnings \o process_map_data_warnings(master_data)
                             \o process_map_data_warnings(student_data)
    /\ UNCHANGED <<master_data, student_data, prop_score, solverVars, nodeVars, runVars>>

\* the causal-link path: both files through create_links_from_csv, then the
\* first reference link compared with the first learner link
CompareCsvLinks ==
    /\ pc = "init"
    /\ pc' = "compare_csv"
    /\ answers' = create_links_from_csv(master_data)
    /\ students' = create_links_from_csv(student_data)
    /\ link_score' = compare_links(create_links_from_csv(master_data)[1],
                                   create_links_from_csv(student_data)[1])
    /\ UNCHANGED <<matching, answer_indices, student_indices, scorerVars, nodeVars, logVars, runVars>>

NextLabels == LoadData \/ ScoreMcClure \/ ScoreNovak \/ CompareCsvLinks

SpecLabels == InitLabels /\ [][NextLabels]_vars

(***************************************************************************)
(* Properties of the matching solver                                       *)
(***************************************************************************)
Solved == pc \in {"wlea", "lea"}

\* one-to-one pairings of any size: injective maps from a set of reference
\* indices into the learner indices (0-based)
Pairings(n, m) ==
    UNION { {f \in [D -> 0..(m - 1)] : \A a, b \in D : a # b => f[a] # f[b]}
            : D \in SUBSET (0..(n - 1)) }

RECURSIVE PairingScore(_, _, _, _)
PairingScore(ans, stu, f, D) ==
    IF D = {} THEN 0
    ELSE LET a == CHOOSE x \in D : TRUE
         IN  compare_links(ans[a + 1], stu[f[a] + 1]) + PairingScore(ans, stu, f, D \ {a})

ScoreOf(ans, stu, f) == PairingScore(ans, stu, f, DOMAIN f)

FullPairings(n, m) == {f \in Pairings(n, m) : Cardinality(DOMAIN f) = Min2(n, m)}

\* C1: best_score is the maximum, over the one-to-one pairings of the whole
\* smaller list with distinct elements of the larger list, of the summed
\* compare_links score; no one-to-one pairing of any size scores higher; with
\* an empty reference or learner list the result is score 0 and an empty
\* assignment.
C1_BestScoreIsOptimal ==
    Solved =>
        LET n == Len(answers)
            m == Len(students)
        IN  /\ \E f \in FullPairings(n, m) :
                   ScoreOf(answers, students, f) = matching.best_score
            /\ \A f \in Pairings(n, m) :
                   ScoreOf(answers, students, f) <= matching.best_score
            /\ (n = 0 \/ m = 0) =>
                   /\ matching.best_score = 0
                   /\ matching.best_matching = <<>>
                   /\ matching.best_answer_indices = <<>>
                   /\ matching.best_student_indices = <<>>

\* the spec's example with the exact-label learner link second, so the first
\* candidate scores 3 and a later one 4
C1_Witness ==
    /\ Solved
    /\ answers = <<Link({"A"}, {"B"}, "causes")>>
    /\ students = <<Link({"A"}, {"B"}, "wrong"), Link({"A"}, {"B"}, "causes")>>
    /\ matching.best_score = 4

\* the candidate pairings in enumeration order, as lists of (reference index,
\* learner index) pairs
CandidatePairs(n, m) ==
    LET k == Min2(n, m)
        cands == Candidates(combinations(Max2(n, m), k))
    IN  [i \in 1..Len(cands) |->
            IF n <= m THEN ZipPairs(PyRange(n), cands[i])
                      ELSE ZipPairs(cands[i], PyRange(m))]

RECURSIVE PairsScore(_, _, _)
PairsScore(ans, stu, pairs) ==
    IF pairs = <<>> THEN 0
    ELSE compare_links(ans[Head(pairs)[1] + 1], stu[Head(pairs)[2] + 1])
         + PairsScore(ans, stu, Tail(pairs))

FirstMaximalCandidate(ans, stu) ==
    LET cp == CandidatePairs(Len(ans), Len(stu))
        isMax(i) == \A j \in 1..Len(cp) :
                        PairsScore(ans, stu, cp[j]) <= PairsScore(ans, stu, cp[i])
        first == CHOOSE i \in 1..Len(cp) :
                     isMax(i) /\ \A j \in 1..(i - 1) : ~isMax(j)
    IN  cp[first]

\* C4: for n >= 1 and m >= 1 the solver returns the first pairing, in
\* enumeration order (combinations ascending, then permutations in order),
\* among those attaining the maximal total score, also when that maximum is 0.
C4_FirstMaximalReturned ==
    (Solved /\ Len(answers) >= 1 /\ Len(students) >= 1) =>
        matching.best_matching = FirstMaximalCandidate(answers, students)

\* C5: every pair of the result is in range, no index is used twice, the two
\* index lists are the components of best_matching in order, and best_score
\* is the sum of compare_links over the pairs.
C5_AssignmentWellFormed ==
    Solved =>
        LET bm == matching.best_matching
        IN  /\ \A i \in DOMAIN bm :
                   /\ bm[i][1] \in 0..(Len(answers) - 1)
                   /\ bm[i][2] \in 0..(Len(students) - 1)
            /\ \A i, j \in DOMAIN bm :
                   i # j => (bm[i][1] # bm[j][1] /\ bm[i][2] # bm[j][2])
            /\ matching.best_answer_indices = [i \in DOMAIN bm |-> bm[i][1]]
            /\ matching.best_student_indices = [i \in DOMAIN bm |-> bm[i][2]]
            /\ matching.best_score = PairsScore(answers, students, bm)

\* more reference links than learner links, a non-trivial permutation chosen
C5_Witness ==
    /\ Solved
    /\ Len(answers) = 3
    /\ Len(students) = 2
    /\ Len(matching.best_matching) = 2
    /\ matching.best_answer_indices # <<0, 1>>
    /\ matching.best_score > 0

(***************************************************************************)
(* Properties of compare_links                                             *)
(***************************************************************************)
\* C2: compare_links returns exactly the score of the first rule that fires:
\* 4 same ends and equal labels; 3 same ends with unequal labels, or ends
\* swapped whatever the label; 2 overlapping ends in the same direction and
\* equal labels; 1 that overlap with unequal labels, or overlap in the
\* reversed direction; 0 otherwise.
C2_FirstRuleFires ==
    pc = "compare_links" =>
        LET R == answers[1]
            S == students[1]
            same == R.antes = S.antes /\ R.conq = S.conq
            swapped == R.antes = S.conq /\ R.conq = S.antes
            overlap == (R.antes \cap S.antes) # {} /\ (R.conq \cap S.conq) # {}
            crossed == (R.antes \cap S.conq) # {} /\ (R.conq \cap S.antes) # {}
            label == R.type = S.type
            rule4 == same /\ label
            rule3 == (same /\ ~label) \/ swapped
            rule2 == overlap /\ label
            rule1 == (overlap /\ ~label) \/ crossed
        IN  /\ link_score \in 0..4
            /\ (link_score = 4) <=> rule4
            /\ (link_score = 3) <=> (~rule4 /\ rule3)
            /\ (link_score = 2) <=> (~rule4 /\ ~rule3 /\ rule2)
            /\ (link_score = 1) <=> (~rule4 /\ ~rule3 /\ ~rule2 /\ rule1)
            /\ (link_score = 0) <=> (~rule4 /\ ~rule3 /\ ~rule2 /\ ~rule1)

\* ends swapped AND overlapping in the same direction with equal labels: the
\* reversed rule (3) fires before the overlap rule (2)
C2_Witness ==
    /\ pc = "compare_links"
    /\ answers[1].antes = students[1].conq
    /\ answers[1].conq = students[1].antes
    /\ answers[1].antes # students[1].antes
    /\ (answers[1].antes \cap students[1].antes) # {}
    /\ (answers[1].conq \cap students[1].conq) # {}
    /\ answers[1].type = students[1].type
    /\ link_score = 3

(***************************************************************************)
(* Properties of Rubric A                                                  *)
(***************************************************************************)
\* C3: McClure's score_proposition returns 3 if some reference link has an
\* equal normalised label and nodes_match in the same direction; otherwise 2
\* if some reference link has an equal normalised label and nodes_match with
\* its ends swapped; otherwise 1 if some reference link has nodes_match in
\* the same direction whatever its label; otherwise 0.  A learner link that
\* is in the reference list with the same nodes and label scores 3.
C3_McClureRubric ==
    pc = "mcclure" =>
        \A i \in DOMAIN student_map :
            LET s == student_map[i]
                M == Range(master_map)
                label(m) == normalize_type(m.type) = normalize_type(s.type)
                tier3 == \E m \in M : label(m) /\ nodes_match(s.antes, s.conq, m.antes, m.conq)
                tier2 == \E m \in M : label(m) /\ nodes_match(s.antes, s.conq, m.conq, m.antes)
                tier1 == \E m \in M : nodes_match(s.antes, s.conq, m.antes, m.conq)
                identical == \E m \in M :
                                 m.antes = s.antes /\ m.conq = s.conq /\ m.type = s.type
            IN  /\ prop_score[i] = (IF tier3 THEN 3 ELSE IF tier2 THEN 2
                                    ELSE IF tier1 THEN 1 ELSE 0)
                /\ identical => prop_score[i] = 3

\* a reference list whose first link matches by nodes only and whose second
\* link matches reversed with the learner's label: the reversed rule wins
C3_Witness ==
    /\ pc = "mcclure"
    /\ Len(master_map) = 2
    /\ nodes_match(student_map[1].antes, student_map[1].conq,
                   master_map[1].antes, master_map[1].conq)
    /\ normalize_type(master_map[1].type) # normalize_type(student_map[1].type)
    /\ nodes_match(student_map[1].antes, student_map[1].conq,
                   master_map[2].conq, master_map[2].antes)
    /\ student_map[1].antes # student_map[1].conq
    /\ student_map[1].type = <<"A", " ">>
    /\ master_map[2].type = <<"a">>
    /\ prop_score[1] = 2

(***************************************************************************)
(* Properties of subset matching                                           *)
(***************************************************************************)
JunctionKind(node_id) ==
    IF StartsWith(node_id, JUNCTION_PREFIX_FROM) THEN "from"
    ELSE IF StartsWith(node_id, JUNCTION_PREFIX_TO) THEN "to"
    ELSE "plain"

\* the backing node set of a junction id: what follows the prefix, split on
\* the separator
BackingSet(node_id) ==
    LET e == extract_nodes_from_junction_id(node_id)
    IN  e.antes \cup e.conq

\* C6: is_subset_match(learnerId, referenceId) is true exactly when both ids
\* are junction ids of the same kind and the learner's backing set is a
\* non-empty subset of the reference's backing set; a from-junction over {1}
\* matches a from-junction over {1,2}, a to-junction over {3} does not match
\* a from-junction over {3}.
C6_SubsetMatchExact ==
    pc = "is_subset_match" =>
        /\ subset_match =
               (/\ JunctionKind(student_node_id) # "plain"
                /\ JunctionKind(student_node_id) = JunctionKind(master_node_id)
                /\ BackingSet(student_node_id) # {}
                /\ BackingSet(student_node_id) \subseteq BackingSet(master_node_id))
        /\ (student_node_id = JUNCTION_PREFIX_FROM \o <<"1">>
            /\ master_node_id = JUNCTION_PREFIX_FROM \o <<"1", "_", "2">>) => subset_match
        /\ (student_node_id = JUNCTION_PREFIX_TO \o <<"3">>
            /\ master_node_id = JUNCTION_PREFIX_FROM \o <<"3">>) => ~subset_match

C6_Witness ==
    /\ pc = "is_subset_match"
    /\ student_node_id = JUNCTION_PREFIX_FROM \o <<"1">>
    /\ master_node_id = JUNCTION_PREFIX_FROM \o <<"1", "_", "2">>
    /\ subset_match = TRUE

(***************************************************************************)
(* Properties of expand_proposition                                        *)
(***************************************************************************)
Expanding == pc = "expand_proposition"
RawProp == student_data[1]
AntesIds == normalize_ids(RawProp.antes)
ConqIds == normalize_ids(RawProp.conq)
IsManyToOne == Len(AntesIds) >= 2 /\ Len(ConqIds) = 1
IsOneToMany == Len(AntesIds) = 1 /\ Len(ConqIds) >= 2

\* the junction ids of the expansion, each with its kind and the node ids it
\* was built from
JunctionsCreated ==
    IF IsManyToOne
    THEN {<<student_map[i].conq, "to", Range(ConqIds)>> : i \in 1..Len(AntesIds)}
         \cup {<<student_map[Len(student_map)].antes, "from", Range(AntesIds)>>}
    ELSE IF IsOneToMany
    THEN {<<student_map[i].antes, "from", Range(AntesIds)>> : i \in 1..Len(ConqIds)}
         \cup {<<student_map[Len(student_map)].conq, "to", Range(ConqIds)>>}
    ELSE {}

\* the set recovered from a junction id by stripping the prefix and splitting
Recovered(node_id, kind) ==
    LET e == extract_nodes_from_junction_id(node_id)
    IN  IF kind = "from" THEN e.antes ELSE e.conq

\* the non-empty pieces of a set of node ids split on the separator
Pieces(ids) == UNION {Range(NonEmpty(Split(x, "_"))) : x \in ids}

\* C7 as claimed: every junction id produced by expand_proposition has a
\* backing set of at least 2 node ids, and the set recovered from the id
\* equals the set of input node ids the junction was built from.
C7_JunctionBackingAtLeastTwo ==
    Expanding =>
        \A j \in JunctionsCreated :
            /\ Cardinality(Recovered(j[1], j[2])) >= 2
            /\ Recovered(j[1], j[2]) = j[3]

\* C7 as amended: every junction id produced by expand_proposition is
\* recognised by its prefix as a junction of its kind, and the set recovered
\* from it equals the set of non-empty separator-delimited pieces of the node
\* ids it was built from; when none of those ids contains the separator this
\* is exactly the set of input node ids, which has at least 1 element.
C7_JunctionBackingRecoverable ==
    Expanding =>
        \A j \in JunctionsCreated :
            /\ JunctionKind(j[1]) = j[2]
            /\ Recovered(j[1], j[2]) = Pieces(j[3])
            /\ (\A x \in j[3] : "_" \notin Range(x)) =>
                   /\ Recovered(j[1], j[2]) = j[3]
                   /\ Cardinality(Recovered(j[1], j[2])) >= 1

\* a many-to-one proposition over two distinct plain ids: the from-junction
\* carries both, the to-junction only the consequent
C7_Witness ==
    /\ Expanding
    /\ IsManyToOne
    /\ \E j \in JunctionsCreated :
           j[2] = "from" /\ Recovered(j[1], j[2]) = {<<"1">>, <<"2">>}
    /\ \E j \in JunctionsCreated :
           j[2] = "to" /\ Cardinality(Recovered(j[1], j[2])) = 1

\* C10: a proposition with k >= 2 antecedents A and one consequent c expands
\* to exactly k+1 links: for each a in A (in sorted order) the link
\* a -> to-junction(c) labelled 'Junction', then the main link
\* from-junction(A) -> c with the proposition's own label; every link records
\* the raw proposition id as original_id and is flagged as expanded.
C10_ManyToOneExpansion ==
    (Expanding /\ IsManyToOne) =>
        LET k == Len(AntesIds)
            c == ConqIds[1]
        IN  /\ Len(student_map) = k + 1
            /\ \A i \in 1..k :
                   /\ student_map[i].antes = AntesIds[i]
                   /\ student_map[i].conq = JUNCTION_PREFIX_TO \o c
                   /\ student_map[i].type = JUNCTION_TYPE
            /\ student_map[k + 1].antes = JUNCTION_PREFIX_FROM \o Join(AntesIds, <<"_">>)
            /\ student_map[k + 1].conq = c
            /\ student_map[k + 1].type = RawProp.type
            /\ \A i \in 1..(k + 1) :
                   /\ student_map[i].original_id = RawProp.id
                   /\ student_map[i].is_expanded = TRUE

\* three antecedents given out of order
C10_Witness ==
    /\ Expanding
    /\ RawProp.antes = <<"2", " ", "1", "_", "2", " ", "1">>
    /\ RawProp.conq = <<"2">>
    /\ Len(student_map) = 4
    /\ student_map[1].antes = <<"1">>
    /\ student_map[4].antes = JUNCTION_PREFIX_FROM \o <<"1", "_", "1", "_", "2", "_", "2">>

(***************************************************************************)
(* Properties of process_map_data                                          *)
(***************************************************************************)
Triple(prop) == <<prop.antes, prop.conq, prop.type>>

\* C8: the list returned by process_map_data holds no two links with the same
\* (antes, conq, type) triple, and the link kept for a triple is the first
\* link with that triple in input / expansion order.
C8_DedupFirstWins ==
    pc = "process_map_data" =>
        LET all_props == ExpandRows(student_data)
        IN  /\ \A i, j \in DOMAIN student_map :
                   i # j => Triple(student_map[i]) # Triple(student_map[j])
            /\ \A i \in DOMAIN student_map :
                   \E k \in DOMAIN all_props :
                       /\ all_props[k] = student_map[i]
                       /\ \A h \in 1..(k - 1) : Triple(all_props[h]) # Triple(student_map[i])

\* the same one-to-one proposition under two ids: the first id is kept
C8_Witness ==
    /\ pc = "process_map_data"
    /\ Len(student_data) = 2
    /\ student_data[1].id = <<"p", "2">>
    /\ student_data[2].id = <<"p", "1">>
    /\ Len(student_map) = 1
    /\ student_map[1].id = <<"p", "2">>

\* the (antes, conq, type) triples of a list of links
Triples(props) == { Triple(props[i]) : i \in DOMAIN props }

\* C29: deduplication in process_map_data removes a link only if an earlier
\* link has exactly the same antes, the same conq and the same type: the set
\* of (antes, conq, type) triples in the output equals the set of triples
\* produced by expansion, for all node ids and labels, including ones that
\* contain the '_' character.
C29_DedupKeepsEveryTriple ==
    pc = "process_map_data" => Triples(student_map) = Triples(ExpandRows(student_data))

(***************************************************************************)
(* Properties of label comparison                                          *)
(***************************************************************************)
\* two labels differ at most in letter case and surrounding whitespace
SameLabel(t1, t2) == Strip(Lower(t1)) = Strip(Lower(t2))

WithType(r, t) == Row(r.id, r.antes, r.conq, t)

\* C9: every label comparison made while scoring treats labels that differ
\* only in letter case or in leading / trailing whitespace as equal: with
\* such labels the McClure and Novak scores and the compare_links score of
\* links built by create_links_from_csv are those of identical labels.
C9_LabelsCompareNormalized ==
    SameLabel(master_data[1].type, student_data[1].type) =>
        LET same_master == <<WithType(master_data[1], student_data[1].type)>>
        IN  /\ pc = "mcclure" =>
                   prop_score = [i \in DOMAIN student_map |->
                                    mcclure_score_proposition(student_map[i],
                                        process_map_data(same_master))]
            /\ pc = "novak" =>
                   prop_score = [i \in DOMAIN student_map |->
                                    novak_score_proposition(student_map[i],
                                        process_map_data(same_master))]
            /\ pc = "compare_csv" =>
                   link_score = compare_links(create_links_from_csv(same_master)[1],
                                              students[1])

IsOneToOne == Len(AntesIds) = 1 /\ Len(ConqIds) = 1

\* C11: a proposition with a single antecedent a and k >= 2 consequents C
\* expands to exactly k+1 links: for each c in C (in sorted order) the link
\* from-junction(a) -> c labelled 'Junction', then the main link
\* a -> to-junction(C) with the proposition's own label; a one-to-one
\* proposition gives exactly one link with its id, nodes and label unchanged
\* and not flagged as expanded.
C11_OneToManyExpansion ==
    Expanding =>
        /\ IsOneToMany =>
               LET k == Len(ConqIds)
                   a == AntesIds[1]
               IN  /\ Len(student_map) = k + 1
                   /\ \A i \in 1..k :
                          /\ student_map[i].antes = JUNCTION_PREFIX_FROM \o a
                          /\ student_map[i].conq = ConqIds[i]
                          /\ student_map[i].type = JUNCTION_TYPE
                   /\ student_map[k + 1].antes = a
                   /\ student_map[k + 1].conq = JUNCTION_PREFIX_TO \o Join(ConqIds, <<"_">>)
                   /\ student_map[k + 1].type = RawProp.type
        /\ IsOneToOne =>
               /\ Len(student_map) = 1
               /\ student_map[1].id = RawProp.id
               /\ student_map[1].original_id = RawProp.id
               /\ student_map[1].antes = RawProp.antes
               /\ student_map[1].conq = RawProp.conq
               /\ student_map[1].type = RawProp.type
               /\ student_map[1].is_expanded = FALSE

\* one antecedent fanning out to two consequents given out of order
C11_Witness ==
    /\ Expanding
    /\ RawProp.antes = <<"1">>
    /\ RawProp.conq = <<"2", " ", "1">>
    /\ Len(student_map) = 3
    /\ student_map[1].antes = JUNCTION_PREFIX_FROM \o <<"1">>
    /\ student_map[1].conq = <<"1">>
    /\ student_map[3].conq = JUNCTION_PREFIX_TO \o <<"1", "_", "2">>

(***************************************************************************)
(* Properties of the many-to-many case                                     *)
(***************************************************************************)
\* a raw proposition with more than one antecedent and more than one consequent
RowIsManyToMany(r) == Len(normalize_ids(r.antes)) > 1 /\ Len(normalize_ids(r.conq)) > 1

RECURSIVE RowsWithout(_, _)
\* the rows of a list that are not at one of the given positions, in order
RowsWithout(rows, skipped) ==
    IF rows = <<>> THEN <<>>
    ELSE LET rest == RowsWithout(Tail(rows), {i - 1 : i \in skipped \ {1}})
         IN  IF 1 \in skipped THEN rest ELSE <<Head(rows)>> \o rest

\* C12: a proposition with more than one antecedent and more than one
\* consequent yields no expanded link and exactly one warning, the call
\* completes, and the links produced for the other propositions of the map
\* are those the map gives without it.
C12_ManyToManySkipped ==
    pc = "process_map_data" =>
        LET m2m == {i \in DOMAIN student_data : RowIsManyToMany(student_data[i])}
            others == RowsWithout(student_data, m2m)
        IN  /\ \A i \in m2m : expand_proposition(student_data[i]) = <<>>
            /\ \A i \in m2m : \A k \in DOMAIN student_map :
                   student_map[k].original_id # student_data[i].id
            /\ warnings = [k \in 1..Len(RowsWithout(student_data, DOMAIN student_data \ m2m)) |->
                              many_to_many_warning(
                                  RowsWithout(student_data, DOMAIN student_data \ m2m)[k])]
            /\ Len(warnings) = Cardinality(m2m)
            /\ student_map = process_map_data(others)

\* a many-to-many proposition between a one-to-one and a many-to-one one
C12_Witness ==
    /\ pc = "process_map_data"
    /\ Len(student_data) = 3
    /\ student_data[1].id = <<"p", "1">>
    /\ student_data[2].antes = <<"1", " ", "2">>
    /\ student_data[2].conq = <<"2", " ", "3">>
    /\ student_data[3].id = <<"p", "3">>
    /\ Len(warnings) = 1
    /\ warnings[1].id = student_data[2].id
    /\ Len(student_map) = 4

MaxScoreRows == 2
MaxScoreMasterRows == 1

LabelA == <<"a">>
LabelConflictPadded == <<" ", "C", "o", "n", "f", "l", "i", "c", "t">>
LabelConflictUpper == <<"C", "o", "n", "f", "l", "i", "c", "t">>

\* learner rows: a one-to-one link, its reverse, a many-to-one and a
\* one-to-many proposition labelled 'conflict', a many-to-many proposition
\* and a row with an empty column
StudentRowPool ==
    { Row(<<"s", "1">>, S1, S2, LabelA),
      Row(<<"s", "2">>, S2, S1, LabelA),
      Row(<<"s", "3">>, <<"1", " ", "2">>, S3, CONFLICT_LINK_TYPE),
      Row(<<"s", "4">>, S1, <<"2", " ", "3">>, LabelConflictPadded),
      Row(<<"s", "5">>, <<"1", " ", "2">>, <<"2", " ", "3">>, LabelA),
      Row(<<"s", "6">>, <<>>, S2, LabelA) }

\* reference rows: a one-to-one link, a many-to-one proposition labelled
\* 'Conflict' and a many-to-many proposition
MasterRowPool ==
    { Row(<<"m", "1">>, S1, S2, LabelA),
      Row(<<"m", "2">>, <<"1", " ", "2">>, S3, LabelConflictUpper),
      Row(<<"m", "3">>, <<"1", " ", "2">>, <<"2", " ", "3">>, LabelA) }

\* the cross_link_score option: below, inside and above the 0..4 range
CrossLinkScorePool == {-1, 2, 5}

\* data passed to score_all explicitly instead of the loaded data
OtherStudentData == <<Row(<<"t", "1">>, <<"1", " ", "2">>, S3, CONFLICT_LINK_TYPE)>>
OtherMasterData == <<Row(<<"m", "2">>, <<"1", " ", "2">>, S3, LabelConflictUpper)>>

\* the ways score_all is called: without arguments, with other maps and
\* data, with empty lists, and with an empty raw-data list only
ArgPool ==
    { Args(None, None, None),
      Args(Some(process_map_data(OtherStudentData)), Some(process_map_data(OtherMasterData)),
           Some(OtherStudentData)),
      Args(Some(<<>>), Some(<<>>), Some(<<>>)),
      Args(None, None, Some(<<>>)) }

\* a scorer was constructed and both CSV files hold at least one row
InitScore ==
    /\ pc = "init"
    /\ \/ /\ kwargs \in [cross_link_score : CrossLinkScorePool]
          /\ scorer = new_novak_scorer(kwargs.cross_link_score)
       \/ /\ kwargs = [cross_link_score |-> 0]
          /\ scorer = new_mcclure_scorer
    /\ master_data \in SeqsUpTo(MasterRowPool, MaxScoreMasterRows) \ {<<>>}
    /\ student_data \in SeqsUpTo(StudentRowPool, MaxScoreRows) \ {<<>>}
    /\ master_map = <<>>
    /\ student_map = <<>>
    /\ prop_score = Null
    /\ result = Null
    /\ history = <<>>
    /\ f_args = Null
    /\ ExecIdle /\ RegistryIdle
    /\ SolverIdle
    /\ NodesIdle
    /\ LogIdle

\* one score_all call on the loaded scorer
ScoreAllCall(args) ==
    \E out \in {score_all(scorer, Loaded(student_map, master_map, student_data), args)} :
        /\ scorer' = out.self
        /\ result' = out.result
        /\ history' = Append(history, [args |-> args, result |-> out.result])
        /\ UNCHANGED <<scorerVars, solverVars, nodeVars, logVars, f_args, kwargs, execVars, registryVars>>

ScoreAll ==
    /\ pc = "loaded"
    /\ pc' = "scored"
    /\ \E args \in ArgPool : ScoreAllCall(args)

NextScore == LoadData \/ ScoreAll

SpecScore == InitScore /\ [][NextScore]_vars

(***************************************************************************)
(* Properties of score_all                                                 *)
(***************************************************************************)
Scored == pc = "scored"
LastArgs == history[Len(history)].args

\* the lists a call names: the argument if one was passed, else the loaded one
CallStudentMap(args) ==
    IF args.student_map.given THEN args.student_map.value ELSE student_map
CallMasterMap(args) ==
    IF args.master_map.given THEN args.master_map.value ELSE master_map
CallStudentData(args) ==
    IF args.student_original_data.given THEN args.student_original_data.value ELSE student_data

Clamp(x, lo, hi) == IF x < lo THEN lo ELSE IF x > hi THEN hi ELSE x

\* the learner links whose normalised label is 'conflict'
ConflictLinks(links) ==
    {i \in DOMAIN links : Strip(Lower(links[i].type)) = CONFLICT_LINK_TYPE}

\* C14: in Novak scoring the conflict bonus is clamp(cross_link_score, 0, 4)
\* times the number of learner links whose normalised label is 'conflict',
\* matched or not, and it is added to the reported total score.
C14_ConflictBonus ==
    (Scored /\ scorer.kind = "Novak") =>
        LET links == CallStudentMap(LastArgs)
            bonus == Clamp(kwargs.cross_link_score, 0, 4) * Cardinality(ConflictLinks(links))
        IN  /\ result.cross_link_score = bonus
            /\ result.conflict_count = Cardinality(ConflictLinks(links))
            /\ result.total_score =
                   result.proposition_score + result.limitation_score + bonus
            /\ result.final_total_score = result.total_score

\* an option above the range, one matched and one unmatched 'conflict' link
C14_Witness ==
    /\ Scored
    /\ scorer.kind = "Novak"
    /\ kwargs.cross_link_score = 5
    /\ LastArgs = Args(None, None, None)
    /\ \E i, j \in ConflictLinks(student_map) :
           result.results[i] = 3 /\ result.results[j] = 0
    /\ result.cross_link_score = 8
    /\ result.proposition_score = 9
    /\ result.limitation_score = 8
    /\ result.total_score = 9 + 8 + 8

RowIsManyToOne(r) == Len(normalize_ids(r.antes)) >= 2 /\ Len(normalize_ids(r.conq)) = 1
RowIsOneToMany(r) == Len(normalize_ids(r.antes)) = 1 /\ Len(normalize_ids(r.conq)) >= 2
RowHasEmptySide(r) == normalize_ids(r.antes) = <<>> \/ normalize_ids(r.conq) = <<>>

\* the raw propositions that earn the limitation bonus
Limitations(rows) == {i \in DOMAIN rows : RowIsManyToOne(rows[i]) \/ RowIsOneToMany(rows[i])}

\* a call that passes an explicit empty list is left to the fallback rule of
\* score_all; every other call names its raw learner data unambiguously
RawDataNamed == LastArgs.student_original_data # Some(<<>>)

Ratio(a, b) == IF b > 0 THEN Rat(a, b) ELSE RatZero

\* 2PR / (P + R), or 0 when P + R = 0
FMeasure(p, r) ==
    IF p.num * r.den + r.num * p.den > 0
    THEN Rat(2 * p.num * r.num, p.num * r.den + r.num * p.den)
    ELSE RatZero

\* the bonuses of the learner data a call names (both 0 for McClure)
LimitationBonus ==
    IF scorer.kind = "Novak"
    THEN 4 * Cardinality(Limitations(CallStudentData(LastArgs))) ELSE 0
ConflictBonus ==
    IF scorer.kind = "Novak"
    THEN Clamp(kwargs.cross_link_score, 0, 4)
             * Cardinality(ConflictLinks(CallStudentMap(LastArgs)))
    ELSE 0

\* the sum of the per-link rubric scores
EarnedPropositionScore == SumSeq(result.results)
PerfectScore == IF scorer.kind = "Novak" THEN NOVAK_PERFECT_MATCH ELSE MCCLURE_PERFECT_MATCH
PerfectLinks == {i \in DOMAIN result.results : result.results[i] = PerfectScore}

\* precision, recall and F computed from a proposition score
ScoreBasedMetrics(proposition_score) ==
    LET p == Ratio(proposition_score + LimitationBonus + ConflictBonus,
                   Len(result.results) * PerfectScore + LimitationBonus + ConflictBonus)
        r == Ratio(proposition_score + LimitationBonus,
                   result.master_props * PerfectScore + LimitationBonus)
    IN  /\ RatEq(result.precision, p)
        /\ RatEq(result.recall, r)
        /\ RatEq(result.f_value, FMeasure(p, r))

\* precision, recall and F computed from the number of perfect links
CountBasedMetrics ==
    LET p == Ratio(Cardinality(PerfectLinks), Len(result.results))
        r == Ratio(Cardinality(PerfectLinks), result.master_props)
    IN  /\ RatEq(result.precision, p)
        /\ RatEq(result.recall, r)
        /\ RatEq(result.f_value, FMeasure(p, r))

\* C16 as stated: for both McClure and Novak results precision = earned score /
\* (learner link count x perfect score + bonuses) and recall = (proposition
\* score + limitation bonus) / (reference link count x perfect score +
\* limitation bonus), the proposition score being the sum of the per-link
\* rubric scores, and F = 2PR/(P+R) or 0.
C16_ScoreBasedMetricsForBoth == Scored => ScoreBasedMetrics(EarnedPropositionScore)

\* C16 amended: the score-based formulas hold for Novak results (the conflict
\* bonus in the precision numerator and denominator, not in the recall
\* denominator); McClure results take precision = perfect links / learner
\* links and recall = perfect links / reference links.
C16_MetricsPerScorer ==
    Scored =>
        /\ scorer.kind = "Novak" => ScoreBasedMetrics(EarnedPropositionScore)
        /\ scorer.kind = "McClure" => CountBasedMetrics

\* a McClure result with one perfect link and one link of partial credit
C16_Witness ==
    /\ Scored
    /\ scorer.kind = "McClure"
    /\ LastArgs = Args(None, None, None)
    /\ result.results = <<3, 2>>
    /\ result.master_props = 1
    /\ RatEq(result.precision, Rat(1, 2))
    /\ RatEq(result.recall, Rat(1, 1))
    /\ RatEq(result.f_value, Rat(2, 3))

(***************************************************************************)
(* calculate_f_value of the optimal-matching algorithms                    *)
(***************************************************************************)
MAX_LINK_SCORE == 4

\* a calculate_f_value with the two denominators exchanged
calculate_f_value_swapped_counts(raw_score, num_answers, num_students, used_answers, used_students) ==
    IF num_answers = 0 \/ num_students = 0
    THEN [raw_score |-> raw_score, max_possible_score |-> 0, score_rate |-> RatZero,
          recall |-> RatZero, precision |-> RatZero, f_value |-> RatZero,
          matched_pairs |-> 0, unmatched_answers |-> num_answers,
          unmatched_students |-> num_students, coverage_rate |-> RatZero]
    ELSE LET matched_count == Min2(used_answers, used_students)
             max_possible_score == num_answers * MAX_LINK_SCORE
             recall == Rat(raw_score, num_students * MAX_LINK_SCORE)
             precision == Rat(raw_score, num_answers * MAX_LINK_SCORE)
             total_items == Max2(num_answers, num_students)
         IN  [raw_score |-> raw_score,
              max_possible_score |-> max_possible_score,
              score_rate |-> IF max_possible_score > 0
                             THEN Rat(raw_score, max_possible_score) ELSE RatZero,
              recall |-> recall,
              precision |-> precision,
              f_value |-> harmonic_mean(recall, precision),
              matched_pairs |-> matched_count,
              unmatched_answers |-> Max2(0, num_answers - used_answers),
              unmatched_students |-> Max2(0, num_students - used_students),
              coverage_rate |-> IF total_items > 0
                                THEN Rat(matched_count, total_items) ELSE RatZero]

\* calculate_f_value; the floats are kept as exact fractions
calculate_f_value(raw_score, num_answers, num_students, used_answers, used_students) ==
    IF num_answers = 0 \/ num_students = 0
    THEN [raw_score |-> raw_score, max_possible_score |-> 0, score_rate |-> RatZero,
          recall |-> RatZero, precision |-> RatZero, f_value |-> RatZero,
          matched_pairs |-> 0, unmatched_answers |-> num_answers,
          unmatched_students |-> num_students, coverage_rate |-> RatZero]
    ELSE LET matched_count == Min2(used_answers, used_students)
             max_possible_score == num_answers * MAX_LINK_SCORE
             recall == Rat(raw_score, num_answers * MAX_LINK_SCORE)
             precision == Rat(raw_score, num_students * MAX_LINK_SCORE)
             total_items == Max2(num_answers, num_students)
         IN  [raw_score |-> raw_score,
              max_possible_score |-> max_possible_score,
              score_rate |-> IF max_possible_score > 0
                             THEN Rat(raw_score, max_possible_score) ELSE RatZero,
              recall |-> recall,
              precision |-> precision,
              f_value |-> harmonic_mean(recall, precision),
              matched_pairs |-> matched_count,
              unmatched_answers |-> Max2(0, num_answers - used_answers),
              unmatched_students |-> Max2(0, num_students - used_students),
              coverage_rate |-> IF total_items > 0
                                THEN Rat(matched_count, total_items) ELSE RatZero]

\* up to MaxFLinks reference links and learner links
MaxFLinks == 3

\* the calls _build_full_result can make: a score of at most MAX_LINK_SCORE
\* per link, the used counts within the link counts
FArgs ==
    {a \in [raw_score : 0..(MaxFLinks * MAX_LINK_SCORE), num_answers : 0..MaxFLinks,
            num_students : 0..MaxFLinks, used_answers : 0..MaxFLinks,
            used_students : 0..MaxFLinks] :
        a.used_answers <= a.num_answers /\ a.used_students <= a.num_students}

InitFValue ==
    /\ pc = "args"
    /\ f_args \in FArgs
    /\ scorer = Null /\ result = Null /\ history = <<>> /\ kwargs = Null
    /\ ExecIdle /\ RegistryIdle
    /\ SolverIdle /\ ScorerIdle /\ NodesIdle /\ LogIdle

CalculateFValue ==
    /\ pc = "args"
    /\ pc' = "done"
    /\ result' = calculate_f_value(f_args.raw_score, f_args.num_answers, f_args.num_students,
                                   f_args.used_answers, f_args.used_students)
    /\ UNCHANGED <<solverVars, scorerVars, nodeVars, logVars, scorer, history, f_args, kwargs,
                   execVars, registryVars>>

NextFValue == CalculateFValue

SpecFValue == InitFValue /\ [][NextFValue]_vars

FValueDone == pc = "done"

\* C17: for n >= 1 reference links and m >= 1 learner links calculate_f_value
\* returns recall = rawScore/(4n), precision = rawScore/(4m), f_value = their
\* harmonic mean (0 when both are 0), coverage_rate = min(usedRef,
\* usedLearner)/max(n, m) and score_rate = rawScore/(4n); the call
\* calculate_f_value(12, 3, 3, 3, 3) gives f_value = 1.
C17_FValueMetrics ==
    (FValueDone /\ f_args.num_answers >= 1 /\ f_args.num_students >= 1) =>
        LET n == f_args.num_answers
            m == f_args.num_students
            r == Rat(f_args.raw_score, 4 * n)
            p == Rat(f_args.raw_score, 4 * m)
        IN  /\ RatEq(result.recall, r)
            /\ RatEq(result.precision, p)
            /\ RatEq(result.f_value, FMeasure(p, r))
            /\ f_args.raw_score = 0 => RatEq(result.f_value, RatZero)
            /\ RatEq(result.coverage_rate,
                     Rat(Min2(f_args.used_answers, f_args.used_students), Max2(n, m)))
            /\ RatEq(result.score_rate, r)
            /\ f_args = [raw_score |-> 12, num_answers |-> 3, num_students |-> 3,
                         used_answers |-> 3, used_students |-> 3]
                   => RatEq(result.f_value, Rat(1, 1))

\* calculate_f_value(12, 3, 3, 3, 3) has returned f_value = 1
C17_Witness ==
    /\ FValueDone
    /\ f_args = [raw_score |-> 12, num_answers |-> 3, num_students |-> 3,
                 used_answers |-> 3, used_students |-> 3]
    /\ RatEq(result.f_value, Rat(1, 1))
    /\ RatEq(result.recall, Rat(1, 1))
    /\ RatEq(result.coverage_rate, Rat(1, 1))

(***************************************************************************)
(* Both metric conventions: a per-proposition scorer run or one            *)
(* calculate_f_value call                                                  *)
(***************************************************************************)
InitMetrics == InitScore \/ InitFValue

NextMetrics == NextScore \/ NextFValue

SpecMetrics == InitMetrics /\ [][NextMetrics]_vars

\* a rate that was computed without dividing by zero
WellDefined(rate) == rate.den > 0
IsZero(rate) == rate.den > 0 /\ rate.num = 0

\* the denominators of the per-proposition rates
PrecisionDenominator ==
    Len(result.results) * PerfectScore + LimitationBonus + ConflictBonus
RecallDenominator == result.master_props * PerfectScore + LimitationBonus
McClureZeroGuarded ==
    /\ Len(result.results) = 0 => IsZero(result.precision)
    /\ result.master_props = 0 => IsZero(result.recall)
NovakZeroGuarded ==
    /\ PrecisionDenominator = 0 => IsZero(result.precision)
    /\ RecallDenominator = 0 => IsZero(result.recall)

\* C18: with zero reference links or zero learner links no metric
\* computation fails: calculate_f_value returns 0.0 for recall, precision,
\* f_value, score_rate and coverage_rate, and calculate_metrics (base and
\* Novak) and _calculate_final_scores return 0.0 for every rate whose
\* denominator is zero.
C18_ZeroDenominators ==
    /\ FValueDone =>
           /\ \A k \in {"recall", "precision", "f_value", "score_rate", "coverage_rate"} :
                  WellDefined(result[k])
           /\ (f_args.num_answers = 0 \/ f_args.num_students = 0) =>
                  \A k \in {"recall", "precision", "f_value", "score_rate", "coverage_rate"} :
                      IsZero(result[k])
    /\ Scored =>
           /\ \A k \in {"precision", "recall", "f_value", "percentage"} :
                  WellDefined(result[k])
           /\ scorer.kind = "McClure" => McClureZeroGuarded
           /\ scorer.kind = "Novak" => NovakZeroGuarded
           /\ (IsZero(result.precision) /\ IsZero(result.recall)) => IsZero(result.f_value)
           /\ result.max_score = 0 => IsZero(result.percentage)

\* a McClure run in which both files hold only a many-to-many proposition,
\* so that neither map has a link
C18_Witness ==
    /\ Scored
    /\ scorer.kind = "McClure"
    /\ LastArgs = Args(None, None, None)
    /\ student_data # <<>> /\ student_map = <<>>
    /\ master_data # <<>> /\ master_map = <<>>
    /\ result.results = <<>>
    /\ result.master_props = 0
    /\ result.max_score = 0
    /\ IsZero(result.precision) /\ IsZero(result.recall)
    /\ IsZero(result.f_value) /\ IsZero(result.percentage)

(***************************************************************************)
(* score_all called repeatedly on one scorer                               *)
(***************************************************************************)
\* at most MaxCalls score_all calls on the scorer
MaxCalls == 3

\* the files of the repeated runs
RepeatStudentData ==
    { <<Row(<<"s", "1">>, S1, S2, LabelA),
        Row(<<"s", "3">>, <<"1", " ", "2">>, S3, CONFLICT_LINK_TYPE)>>,
      <<Row(<<"s", "2">>, S2, S1, LabelA)>>,
      <<Row(<<"s", "4">>, S1, <<"2", " ", "3">>, LabelConflictPadded),
        Row(<<"s", "5">>, <<"1", " ", "2">>, <<"2", " ", "3">>, LabelA)>> }
RepeatMasterData ==
    { <<Row(<<"m", "1">>, S1, S2, LabelA)>>,
      <<Row(<<"m", "2">>, <<"1", " ", "2">>, S3, LabelConflictUpper)>> }

InitRepeat ==
    /\ pc = "init"
    /\ \/ /\ kwargs \in [cross_link_score : CrossLinkScorePool]
          /\ scorer = new_novak_scorer(kwargs.cross_link_score)
       \/ /\ kwargs = [cross_link_score |-> 0]
          /\ scorer = new_mcclure_scorer
    /\ master_data \in RepeatMasterData
    /\ student_data \in RepeatStudentData
    /\ master_map = <<>>
    /\ student_map = <<>>
    /\ prop_score = Null
    /\ result = Null
    /\ history = <<>>
    /\ f_args = Null
    /\ ExecIdle /\ RegistryIdle
    /\ SolverIdle
    /\ NodesIdle
    /\ LogIdle

\* a further score_all call on the scorer that has already scored
ScoreAllAgain ==
    /\ pc = "scored"
    /\ Len(history) < MaxCalls
    /\ pc' = pc
    /\ \E args \in ArgPool : ScoreAllCall(args)

NextRepeat == LoadData \/ ScoreAll \/ ScoreAllAgain

SpecRepeat == InitRepeat /\ [][NextRepeat]_vars

\* C19: score_all calls on the same scorer with the same maps and raw data
\* return equal results each time, also with a score_all call on different
\* inputs in between: nothing an earlier call left on the scorer changes a
\* later result.
C19_ScoreAllIdempotent ==
    \A i, j \in DOMAIN history :
        history[i].args = history[j].args => history[i].result = history[j].result

\* a Novak scorer with both bonuses scored its loaded data, then empty
\* lists (which stored other bonus scores on the scorer), then its loaded
\* data again
C19_Witness ==
    /\ Len(history) = 3
    /\ scorer.kind = "Novak"
    /\ history[1].args = Args(None, None, None)
    /\ history[2].args = Args(Some(<<>>), Some(<<>>), Some(<<>>))
    /\ history[3].args = Args(None, None, None)
    /\ history[1].result.cross_link_score > 0
    /\ history[1].result.limitation_score > 0
    /\ history[2].result.cross_link_score = 0
    /\ history[2].result # history[1].result
    /\ history[3].result = history[1].result
    /\ scorer.current_cross_link_score = history[1].result.cross_link_score

(***************************************************************************)
(* ParallelExecutor.execute_multiple: the algorithms run as concurrent     *)
(* tasks of a thread pool                                                  *)
(***************************************************************************)
\* AlgorithmRegistry._algorithms once the algorithm modules are imported
RegisteredAlgorithms == {"mcclure", "novak"}
IsRegistered(name) == name \in RegisteredAlgorithms

\* AlgorithmRegistry.get_algorithm for a registered name: algorithm_class()
get_algorithm(name) == [name |-> name, master_file |-> Null, student_file |-> Null]

\* ExecutionResult(...)
ExecutionResult(algorithm_name, success, result_arg, error) ==
    [algorithm_name |-> algorithm_name, success |-> success,
     result |-> result_arg, error |-> error]
create_algorithm_not_found(name) == ExecutionResult(name, FALSE, Null, "not found")

\* BaseConceptMapScorer.__init__ below the scorer class's own __init__
ScorerObject(instance) ==
    [instance |-> instance, master_data |-> <<>>, student_data |-> <<>>,
     master_map |-> <<>>, student_map |-> <<>>]

\* a scorer class that hands out one object per class and runs __init__ on
\* it at every construction
new_scorer_address_singleton(heap_arg, kind) ==
    IF \E a \in DOMAIN heap_arg : heap_arg[a].instance.kind = kind
    THEN CHOOSE a \in DOMAIN heap_arg : heap_arg[a].instance.kind = kind
    ELSE Len(heap_arg) + 1

\* McClureScorer() / NovakScorer(...): every construction is a new object
new_scorer_address(heap_arg, kind) == Len(heap_arg) + 1

\* the scorer an algorithm's execute constructs from the options
new_scorer(name) ==
    IF name = "novak" THEN new_novak_scorer(kwargs.cross_link_score) ELSE new_mcclure_scorer

\* what score_all reads from the scorer object at an address
LoadedAt(a) == Loaded(heap[a].student_map, heap[a].master_map, heap[a].student_data)

\* up to MaxTasks names in one execute_multiple call
MaxTasks == 2

\* the requested names: both algorithms and a name that is not registered
NamePool == {"mcclure", "novak", "unknown"}

\* the two files of a run
FilePool ==
    { [master |-> <<Row(<<"m", "1">>, S1, S2, LabelA),
                    Row(<<"m", "2">>, <<"1", " ", "2">>, S3, LabelConflictUpper)>>,
       student |-> <<Row(<<"s", "2">>, S2, S1, LabelA),
                     Row(<<"s", "3">>, <<"1", " ", "2">>, S3, CONFLICT_LINK_TYPE)>>],
      [master |-> <<Row(<<"m", "1">>, S1, S2, LabelA)>>,
       student |-> <<Row(<<"s", "1">>, S1, S2, LabelA),
                     Row(<<"s", "4">>, S1, <<"2", " ", "3">>, LabelConflictPadded)>>] }

InitExecute ==
    /\ pc = "init"
    /\ algorithm_names \in SeqsUpTo(NamePool, MaxTasks) \ {<<>>}
    /\ files \in FilePool
    /\ kwargs \in [cross_link_score : CrossLinkScorePool]
    /\ tasks = <<>>
    /\ heap = <<>>
    /\ results = <<>>
    /\ scorer = Null /\ result = Null /\ history = <<>> /\ f_args = Null
    /\ RegistryIdle
    /\ SolverIdle /\ ScorerIdle /\ NodesIdle /\ LogIdle

\* execute_multiple up to the end of the submit loop
SubmitTasks ==
    LET found == SelectSeq(algorithm_names, IsRegistered)
        missing == SelectSeq(algorithm_names, LAMBDA name : ~IsRegistered(name))
    IN  /\ pc = "init"
        /\ results' = [i \in DOMAIN missing |-> create_algorithm_not_found(missing[i])]
        /\ tasks' = [i \in DOMAIN found |->
                        [algorithm |-> get_algorithm(found[i]), pc |-> "submitted",
                         scorer |-> 0, locals |-> Null, result |-> Null]]
        /\ pc' = IF found = <<>> THEN "returned" ELSE "running"
        /\ UNCHANGED <<algorithm_names, files, heap, kwargs, scorer, result, history, f_args,
                       registryVars, solverVars, scorerVars, nodeVars, logVars>>

TaskUnchanged == UNCHANGED <<pc, algorithm_names, files, kwargs, scorer, result, history, f_args, registryVars, solverVars, scorerVars, nodeVars, logVars>>

\* execute_single and execute up to the construction of the scorer
ConstructScorer(i) ==
    LET name == tasks[i].algorithm.name
        a == new_scorer_address(heap, new_scorer(name).kind)
        object == ScorerObject(new_scorer(name))
    IN  /\ tasks[i].pc = "submitted"
        /\ heap' = IF a \in DOMAIN heap THEN [heap EXCEPT ![a] = object]
                                       ELSE Append(heap, object)
        /\ tasks' = [tasks EXCEPT ![i].pc = "constructed", ![i].scorer = a]
        /\ UNCHANGED results
        /\ TaskUnchanged

\* load_data: the two load_csv calls
LoadCsv(i) ==
    LET a == tasks[i].scorer
    IN  /\ tasks[i].pc = "constructed"
        /\ heap' = [heap EXCEPT ![a].master_data = files.master,
                                ![a].student_data = files.student]
        /\ tasks' = [tasks EXCEPT ![i].pc = "read"]
        /\ UNCHANGED results
        /\ TaskUnchanged

\* load_data: the two process_map_data calls
ProcessMaps(i) ==
    LET a == tasks[i].scorer
    IN  /\ tasks[i].pc = "read"
        /\ heap' = [heap EXCEPT ![a].master_map = process_map_data(heap[a].master_data),
                                ![a].student_map = process_map_data(heap[a].student_data)]
        /\ tasks' = [tasks EXCEPT ![i].pc = "loaded"]
        /\ UNCHANGED results
        /\ TaskUnchanged

\* McClureScorer.score_all()
McClureScoreAll(i) ==
    LET a == tasks[i].scorer
        out == mcclure_score_all(heap[a].instance, LoadedAt(a), Args(None, None, None))
    IN  /\ tasks[i].pc = "loaded"
        /\ tasks[i].algorithm.name = "mcclure"
        /\ tasks' = [tasks EXCEPT ![i].pc = "scored", ![i].result = out.result]
        /\ UNCHANGED <<heap, results>>
        /\ TaskUnchanged

\* NovakScorer.score_all() up to the call of the base score_all
NovakScoreAllBegin(i) ==
    LET a == tasks[i].scorer
        locals == novak_score_all_begin(heap[a].instance, LoadedAt(a), Args(None, None, None))
    IN  /\ tasks[i].pc = "loaded"
        /\ tasks[i].algorithm.name = "novak"
        /\ heap' = [heap EXCEPT ![a].instance = locals.self]
        /\ tasks' = [tasks EXCEPT ![i].pc = "stored", ![i].locals = locals]
        /\ UNCHANGED results
        /\ TaskUnchanged

\* NovakScorer.score_all() from the call of the base score_all on
NovakScoreAllFinish(i) ==
    LET a == tasks[i].scorer
    IN  /\ tasks[i].pc = "stored"
        /\ tasks' = [tasks EXCEPT
                        ![i].pc = "scored",
                        ![i].result = novak_score_all_finish(heap[a].instance, LoadedAt(a),
                                                             tasks[i].locals)]
        /\ UNCHANGED <<heap, results>>
        /\ TaskUnchanged

\* as_completed hands the finished future to the loop of execute_multiple
CollectResult(i) ==
    /\ tasks[i].pc = "scored"
    /\ results' = Append(results,
                         ExecutionResult(tasks[i].algorithm.name, TRUE, tasks[i].result, Null))
    /\ tasks' = [tasks EXCEPT ![i].pc = "collected"]
    /\ UNCHANGED heap
    /\ TaskUnchanged

\* execute_multiple returns the list
ReturnResults ==
    /\ pc = "running"
    /\ \A i \in DOMAIN tasks : tasks[i].pc = "collected"
    /\ pc' = "returned"
    /\ UNCHANGED <<solverVars, scorerVars, nodeVars, logVars, runVars>>

NextExecute ==
    \/ SubmitTasks
    \/ \E i \in DOMAIN tasks : ConstructScorer(i)
    \/ \E i \in DOMAIN tasks : LoadCsv(i)
    \/ \E i \in DOMAIN tasks : ProcessMaps(i)
    \/ \E i \in DOMAIN tasks : McClureScoreAll(i)
    \/ \E i \in DOMAIN tasks : NovakScoreAllBegin(i)
    \/ \E i \in DOMAIN tasks : NovakScoreAllFinish(i)
    \/ \E i \in DOMAIN tasks : CollectResult(i)
    \/ ReturnResults

SpecExecute == InitExecute /\ [][NextExecute]_vars

\* what the algorithm returns when it runs alone on the two files
SoloResult(name) ==
    score_all(new_scorer(name),
              Loaded(process_map_data(files.student), process_map_data(files.master),
                     files.student),
              Args(None, None, None)).result

\* C20: under every interleaving of the tasks of execute_multiple, also with
\* one name requested several times, the result of each ExecutionResult is
\* what that algorithm returns when it runs alone on the same files.
C20_TasksIsolated ==
    /\ \A i \in DOMAIN tasks :
           tasks[i].pc \in {"scored", "collected"} =>
               tasks[i].result = SoloResult(tasks[i].algorithm.name)
    /\ \A k \in DOMAIN results :
           results[k].success => results[k].result = SoloResult(results[k].algorithm_name)
    /\ pc = "returned" =>
           /\ Len(results) = Len(algorithm_names)
           /\ \A k \in DOMAIN results : results[k].success = IsRegistered(results[k].algorithm_name)

\* 'novak' was requested twice: the two tasks worked on two scorer objects
\* and both results, with a conflict bonus, were collected
C20_Witness ==
    /\ pc = "returned"
    /\ algorithm_names = <<"novak", "novak">>
    /\ kwargs.cross_link_score = 2
    /\ Len(heap) = 2
    /\ tasks[1].scorer = 1 /\ tasks[2].scorer = 2
    /\ Len(results) = 2
    /\ results[1].success /\ results[2].success
    /\ results[1].result = results[2].result
    /\ results[1].result.cross_link_score > 0
    /\ results[1].result.total_score > 0

(***************************************************************************)
(* _calculate_matching_score applied to drawn index lists                  *)
(***************************************************************************)
MaxIndices == 2

\* indices below, inside and above the range of the link lists
IndexPool == -2..2

IndexedAnswers == { <<l>> : l \in AnswerPool } \cup { <<l, l>> : l \in AnswerPool }
IndexedStudents == { <<l>> : l \in StudentPool }

InitIndices ==
    /\ pc = "init"
    /\ LogIdle
    /\ RunIdle
    /\ answers \in IndexedAnswers
    /\ students \in IndexedStudents
    /\ answer_indices \in SeqsUpTo(IndexPool, MaxIndices)
    /\ student_indices \in SeqsUpTo(IndexPool, MaxIndices)
    /\ matching = Null
    /\ link_score = Null
    /\ ScorerIdle
    /\ NodesIdle

WleaCalculateMatchingScore ==
    /\ pc = "init"
    /\ pc' = "wlea_score"
    /\ matching' = calculate_matching_score(answers, students, answer_indices, student_indices)
    /\ UNCHANGED <<answers, students, link_score, answer_indices, student_indices, scorerVars, nodeVars, logVars, runVars>>

LeaCalculateMatchingScore ==
    /\ pc = "init"
    /\ pc' = "lea_score"
    /\ matching' = lea_calculate_matching_score(answers, students, answer_indices, student_indices)
    /\ UNCHANGED <<answers, students, link_score, answer_indices, student_indices, scorerVars, nodeVars, logVars, runVars>>

NextIndices == WleaCalculateMatchingScore \/ LeaCalculateMatchingScore

SpecIndices == InitIndices /\ [][NextIndices]_vars

(***************************************************************************)
(* Properties of _calculate_matching_score                                 *)
(***************************************************************************)
AssignmentScored == pc \in {"wlea_score", "lea_score"}

\* an index that is negative or not less than the length of its list
OutOfRange(indices, list) == \E i \in DOMAIN indices : indices[i] < 0 \/ indices[i] >= Len(list)

\* C21: computing the score of an assignment that contains a reference or
\* learner index that is negative or not less than the length of its list
\* raises an error and returns no score, in lea_core and in wlea_core.
C21_InvalidIndexRaises ==
    AssignmentScored =>
        ((OutOfRange(answer_indices, answers) \/ OutOfRange(student_indices, students))
            => matching.raised)

(***************************************************************************)
(* Order of the reference links                                            *)
(***************************************************************************)
\* the reference list in every order
Reorderings(links) == Range(permutations(links))

\* C22: for a fixed learner link, the score returned by McClureScorer's and
\* by NovakScorer's score_proposition is the same for every permutation of
\* the reference link list.
C22_ScoreOrderIndependent ==
    /\ pc = "mcclure" =>
          \A i \in DOMAIN student_map : \A reordered \in Reorderings(master_map) :
              mcclure_score_proposition(student_map[i], reordered) = prop_score[i]
    /\ pc = "novak" =>
          \A i \in DOMAIN student_map : \A reordered \in Reorderings(master_map) :
              novak_score_proposition(student_map[i], reordered) = prop_score[i]

\* the first reference link matches the nodes only, the second one perfectly
C22_Witness ==
    /\ pc = "mcclure"
    /\ Len(master_map) = 2
    /\ mcclure_score_proposition(student_map[1], <<master_map[1]>>) = MCCLURE_LABEL_MISMATCH
    /\ mcclure_score_proposition(student_map[1], <<master_map[2]>>) = MCCLURE_PERFECT_MATCH
    /\ prop_score[1] = MCCLURE_PERFECT_MATCH

(***************************************************************************)
(* nodes_match applied to the links of two loaded maps                     *)
(***************************************************************************)
MaxNodeRows == 2

\* learner rows: plain ids, an id that carries a junction prefix, ids with
\* an unrecognised prefix, and a row that expansion turns into junctions
NodeStudentRows ==
    { Row(<<"s", "1">>, S1, S3, LabelA),
      Row(<<"s", "2">>, T_FROM_1, S3, LabelA),
      Row(<<"s", "3">>, <<"t", "_", "1">>, S3, LabelA),
      Row(<<"s", "4">>, <<"f", "r", "o", "m", "_", "1">>, S3, LabelA),
      Row(<<"s", "5">>, <<"1", " ", "2">>, S3, LabelA),
      Row(<<"s", "6">>, S1, JUNCTION_PREFIX_TO \o <<"3">>, LabelA) }

NodeMasterRows ==
    { Row(<<"m", "1">>, <<"1", " ", "2">>, S3, LabelA),
      Row(<<"m", "2">>, S1, <<"3", " ", "2">>, LabelA),
      Row(<<"m", "3">>, <<"t", "_", "1">>, S3, LabelA),
      Row(<<"m", "4">>, T_FROM_1_2, S3, LabelA) }

InitNodes ==
    /\ pc = "init"
    /\ LogIdle
    /\ RunIdle
    /\ master_data \in SeqsUpTo(NodeMasterRows, MaxNodeRows) \ {<<>>}
    /\ student_data \in SeqsUpTo(NodeStudentRows, MaxNodeRows) \ {<<>>}
    /\ master_map = <<>>
    /\ student_map = <<>>
    /\ prop_score = Null
    /\ SolverIdle
    /\ NodesIdle

\* is_subset_match on both node pairs and nodes_match, for every learner link
\* against every reference link, as the loops of score_proposition call it
NodesMatch ==
    /\ pc = "loaded"
    /\ pc' = "nodes_match"
    /\ subset_match' =
           [i \in DOMAIN student_map |-> [j \in DOMAIN master_map |->
               [antes_subset |-> is_subset_match(student_map[i].antes, master_map[j].antes),
                conq_subset |-> is_subset_match(student_map[i].conq, master_map[j].conq),
                nodes_match |-> nodes_match(student_map[i].antes, student_map[i].conq,
                                            master_map[j].antes, master_map[j].conq)]]]
    /\ UNCHANGED <<student_node_id, master_node_id, solverVars, scorerVars, logVars, runVars>>

NextNodes == LoadData \/ NodesMatch

SpecNodes == InitNodes /\ [][NextNodes]_vars

(***************************************************************************)
(* Properties of plain node ids                                            *)
(***************************************************************************)
\* the node ids written in the raw row a link came from
InputIds(rows, link) ==
    UNION { Range(normalize_ids(rows[k].antes)) \cup Range(normalize_ids(rows[k].conq)) :
              k \in {k \in DOMAIN rows : rows[k].id = link.original_id} }

\* a plain node id: an input node id, not a junction made by the expansion
IsPlain(rows, link, node_id) == node_id \in InputIds(rows, link)

\* C23: a plain node id (an input node id that was not synthesized as a
\* junction by expansion) and any id with an unrecognized prefix never
\* subset-matches anything on either side of is_subset_match, so nodes_match
\* accepts such a node only when the learner and reference ids are equal.
C23_PlainNeverSubsetMatches ==
    pc = "nodes_match" =>
        \A i \in DOMAIN student_map : \A j \in DOMAIN master_map :
            LET s == student_map[i]
                m == master_map[j]
                r == subset_match[i][j]
            IN  /\ (IsPlain(student_data, s, s.antes) \/ IsPlain(master_data, m, m.antes))
                       => /\ ~r.antes_subset
                          /\ r.nodes_match => s.antes = m.antes
                /\ (IsPlain(student_data, s, s.conq) \/ IsPlain(master_data, m, m.conq))
                       => /\ ~r.conq_subset
                          /\ r.nodes_match => s.conq = m.conq

(***************************************************************************)
(* AlgorithmRegistry: register / unregister / get_algorithm /              *)
(* list_algorithms / clear on the class-level dict _algorithms             *)
(***************************************************************************)
\* an algorithm class: its __init__ passes a fixed name to BaseAlgorithm
AlgorithmClass(class, name) == [class |-> class, name |-> name]

\* algorithm_class(): a new object of the class
NewInstance(algorithm_class, address) ==
    [class |-> algorithm_class.class, name |-> algorithm_class.name, address |-> address]

\* a dict as the list of its items in insertion order
DictHas(dict, key) == \E i \in DOMAIN dict : dict[i].key = key
DictGet(dict, key) == dict[CHOOSE i \in DOMAIN dict : dict[i].key = key].value

\* a registration that keeps the class already stored under the name
register_keep_first(dict, algorithm_class) ==
    IF DictHas(dict, algorithm_class.name) THEN dict
    ELSE Append(dict, [key |-> algorithm_class.name, value |-> algorithm_class])

\* cls._algorithms[name] = algorithm_class: an existing key keeps its place
register(dict, algorithm_class) ==
    IF DictHas(dict, algorithm_class.name)
    THEN [i \in DOMAIN dict |->
             IF dict[i].key = algorithm_class.name
             THEN [key |-> dict[i].key, value |-> algorithm_class] ELSE dict[i]]
    ELSE Append(dict, [key |-> algorithm_class.name, value |-> algorithm_class])

unregister(dict, name) ==
    IF DictHas(dict, name)
    THEN [registry |-> SelectSeq(dict, LAMBDA item : item.key # name), returned |-> TRUE]
    ELSE [registry |-> dict, returned |-> FALSE]

registry_get_algorithm(dict, name, address) ==
    IF ~DictHas(dict, name) THEN None
    ELSE Some(NewInstance(DictGet(dict, name), address))

list_algorithms(dict) == [i \in DOMAIN dict |-> dict[i].key]

clear(dict) == <<>>

MaxRegistryCalls == 4

\* two classes that pass the same name, and one with a name of its own
ClassPool ==
    { AlgorithmClass("McClureAlgorithm", "mcclure"),
      AlgorithmClass("McClureVariant", "mcclure"),
      AlgorithmClass("NovakAlgorithm", "novak") }

RegistryNames == {"mcclure", "novak", "unknown"}

Called(call, arg, returned) == [call |-> call, arg |-> arg, result |-> returned]

InitRegistry ==
    /\ pc = "init"
    /\ registry = <<>>
    /\ instances = 0
    /\ scorer = Null /\ result = Null /\ history = <<>>
    /\ f_args = Null /\ kwargs = Null
    /\ ExecIdle
    /\ SolverIdle /\ ScorerIdle /\ NodesIdle /\ LogIdle

RegistryUnchanged == UNCHANGED <<scorer, result, f_args, kwargs, execVars, solverVars, scorerVars, nodeVars, logVars>>

\* register: one object is built to read its name
Register ==
    /\ Len(history) < MaxRegistryCalls
    /\ \E algorithm_class \in ClassPool :
           /\ registry' = register(registry, algorithm_class)
           /\ instances' = instances + 1
           /\ history' = Append(history, Called("register", algorithm_class, None))
    /\ pc' = "register"
    /\ RegistryUnchanged

Unregister ==
    /\ Len(history) < MaxRegistryCalls
    /\ \E name \in RegistryNames : \E out \in {unregister(registry, name)} :
           /\ registry' = out.registry
           /\ history' = Append(history, Called("unregister", name, out.returned))
    /\ pc' = "unregister"
    /\ UNCHANGED instances
    /\ RegistryUnchanged

GetAlgorithm ==
    /\ Len(history) < MaxRegistryCalls
    /\ \E name \in RegistryNames :
       \E out \in {registry_get_algorithm(registry, name, instances + 1)} :
           /\ instances' = IF out.given THEN instances + 1 ELSE instances
           /\ history' = Append(history, Called("get_algorithm", name, out))
    /\ pc' = "get_algorithm"
    /\ UNCHANGED registry
    /\ RegistryUnchanged

ListAlgorithms ==
    /\ Len(history) < MaxRegistryCalls
    /\ history' = Append(history, Called("list_algorithms", None, list_algorithms(registry)))
    /\ pc' = "list_algorithms"
    /\ UNCHANGED <<registry, instances>>
    /\ RegistryUnchanged

Clear ==
    /\ Len(history) < MaxRegistryCalls
    /\ registry' = clear(registry)
    /\ history' = Append(history, Called("clear", None, None))
    /\ pc' = "clear"
    /\ UNCHANGED instances
    /\ RegistryUnchanged

NextRegistry == Register \/ Unregister \/ GetAlgorithm \/ ListAlgorithms \/ Clear

SpecRegistry == InitRegistry /\ [][NextRegistry]_vars

(***************************************************************************)
(* Properties of the registry                                              *)
(***************************************************************************)
\* the class registered under a name after the first n calls, from the calls
\* alone: the latest register of a class with that name that no later
\* unregister of the name and no later clear has removed
RegisteredBy(name, n) ==
    {k \in 1..n :
        /\ history[k].call = "register"
        /\ history[k].arg.name = name
        /\ \A later \in (k + 1)..n :
              /\ history[later].call # "clear"
              /\ history[later].call = "unregister" => history[later].arg # name
              /\ history[later].call = "register" => history[later].arg.name # name}

IsRegisteredAfter(name, n) == RegisteredBy(name, n) # {}

\* the objects get_algorithm has returned in the first n calls
ReturnedBefore(n) ==
    {history[k].result.value :
        k \in {k \in 1..n : history[k].call = "get_algorithm" /\ history[k].result.given}}

\* C24: after any sequence of register, unregister and clear calls,
\* list_algorithms returns exactly the names currently registered (each
\* once), get_algorithm(name) returns None exactly when name is not currently
\* registered and otherwise a new instance of the class most recently
\* registered under that name whose name attribute equals name, and
\* unregister(name) returns True exactly when name was registered.
C24_RegistryTracksCalls ==
    \A n \in DOMAIN history :
        LET c == history[n]
        IN  /\ c.call = "list_algorithms" =>
                /\ Range(c.result) = {name \in RegistryNames : IsRegisteredAfter(name, n - 1)}
                /\ \A i, j \in DOMAIN c.result : c.result[i] = c.result[j] => i = j
            /\ c.call = "get_algorithm" =>
                /\ c.result.given = IsRegisteredAfter(c.arg, n - 1)
                /\ c.result.given =>
                      /\ \A k \in RegisteredBy(c.arg, n - 1) :
                             c.result.value.class = history[k].arg.class
                      /\ c.result.value.name = c.arg
                      /\ c.result.value \notin ReturnedBefore(n - 1)
            /\ c.call = "unregister" => c.result = IsRegisteredAfter(c.arg, n - 1)

\* a name registered twice with different classes, then fetched twice
C24_Witness ==
    /\ Len(history) = 4
    /\ history[1] = Called("register", AlgorithmClass("McClureAlgorithm", "mcclure"), None)
    /\ history[2] = Called("register", AlgorithmClass("McClureVariant", "mcclure"), None)
    /\ history[3].call = "get_algorithm" /\ history[3].arg = "mcclure"
    /\ history[4].call = "get_algorithm" /\ history[4].arg = "mcclure"
    /\ history[3].result.value.class = "McClureVariant"
    /\ history[4].result.value.class = "McClureVariant"
    /\ history[3].result.value # history[4].result.value

(***************************************************************************)
(* Properties of the score_all arguments                                   *)
(***************************************************************************)
\* C25: score_all falls back to the scorer's loaded student_map, master_map
\* and student_data only for arguments passed as None; any explicitly passed
\* list, including an empty list, is exactly the data that is scored and
\* counted in the result (student_props, master_props, score counts,
\* bonuses).
C25_ExplicitArgumentsScored ==
    Scored =>
        /\ result.student_props = Len(CallStudentMap(LastArgs))
        /\ result.master_props = Len(CallMasterMap(LastArgs))
        /\ Len(result.results) = Len(CallStudentMap(LastArgs))
        /\ \A i \in DOMAIN result.results :
               result.results[i] =
                   score_proposition(scorer, CallStudentMap(LastArgs)[i], CallMasterMap(LastArgs))
        /\ scorer.kind = "Novak" =>
               /\ result.limitation_score =
                      NOVAK_LIMITATION_BONUS * Cardinality(Limitations(CallStudentData(LastArgs)))
               /\ result.conflict_count = Cardinality(ConflictLinks(CallStudentMap(LastArgs)))

(***************************************************************************)
(* Properties of the reported totals                                       *)
(***************************************************************************)
\* C26: in every ScoringResult returned by McClureScorer.score_all or
\* NovakScorer.score_all (for every conflict-bonus setting 0..4), the
\* reported total_score (and Novak's final_total_score) never exceeds the
\* reported max_score.
C26_TotalWithinMax ==
    Scored =>
        /\ result.total_score <= result.max_score
        /\ scorer.kind = "Novak" => result.final_total_score <= result.max_score

(***************************************************************************)
(* WLEAAlgorithm.execute: matching, then _build_simple_result or           *)
(* _build_full_result (verbose off)                                        *)
(***************************************************************************)
build_simple_result(score, ans, student_links, pairs) ==
    LET max_possible_score == Min2(Len(ans), Len(student_links)) * MAX_LINK_SCORE
        score_rate == IF max_possible_score > 0 THEN Rat(score, max_possible_score) ELSE RatZero
    IN  [method |-> "WLEA",
         mode |-> "simple_score_only",
         raw_score |-> score,
         max_possible_score |-> max_possible_score,
         score_rate |-> score_rate,
         percentage |-> Rat(score_rate.num * 100, score_rate.den),
         answer_count |-> Len(ans),
         student_count |-> Len(student_links),
         matched_pairs |-> Len(pairs)]

build_full_result(score, ans, student_links, pairs, used_answers, used_students) ==
    LET metrics == calculate_f_value(score, Len(ans), Len(student_links),
                                     Len(used_answers), Len(used_students))
    IN  [method |-> "WLEA",
         mode |-> "full_metrics",
         raw_score |-> metrics.raw_score,
         max_possible_score |-> metrics.max_possible_score,
         score_rate |-> metrics.score_rate,
         recall |-> metrics.recall,
         precision |-> metrics.precision,
         f_value |-> metrics.f_value,
         matched_pairs |-> Len(pairs),
         unmatched_answers |-> metrics.unmatched_answers,
         unmatched_students |-> metrics.unmatched_students,
         coverage_rate |-> metrics.coverage_rate,
         answer_count |-> Len(ans),
         student_count |-> Len(student_links)]

\* execute after _load_links: both link lists are non-empty
wlea_execute(ans, student_links, simple_score_only) ==
    The({ IF simple_score_only
          THEN build_simple_result(m.best_score, ans, student_links, m.best_matching)
          ELSE build_full_result(m.best_score, ans, student_links, m.best_matching,
                                 m.best_answer_indices, m.best_student_indices) :
          m \in {wlea_calculate_optimal_matching_bruteforce(ans, student_links)} })

\* the links _load_links returned for the two files
InitWlea ==
    /\ pc = "links"
    /\ LogIdle
    /\ RunIdle
    /\ answers \in SeqsUpTo(AnswerPool, MaxLinks) \ {<<>>}
    /\ students \in SeqsUpTo(StudentPool, MaxLinks) \ {<<>>}
    /\ matching = Null
    /\ link_score = Null
    /\ IndicesIdle
    /\ ScorerIdle
    /\ NodesIdle

ModeRun(simple_score_only) ==
    \E k \in DOMAIN history : history[k].args.simple_score_only = simple_score_only

\* one execute call on the two files with the given simple_score_only option
WleaExecute(simple_score_only) ==
    /\ pc \in {"links", "wlea_simple", "wlea_full"}
    /\ ~ModeRun(simple_score_only)
    /\ pc' = IF simple_score_only THEN "wlea_simple" ELSE "wlea_full"
    /\ \E out \in {wlea_execute(answers, students, simple_score_only)} :
           /\ result' = out
           /\ history' = Append(history, [args |-> [simple_score_only |-> simple_score_only],
                                          result |-> out])
    /\ UNCHANGED <<solverVars, scorerVars, nodeVars, logVars, scorer, f_args, kwargs,
                   execVars, registryVars>>

ExecuteSimple == WleaExecute(TRUE)

ExecuteFull == WleaExecute(FALSE)

NextWlea == ExecuteSimple \/ ExecuteFull

SpecWlea == InitWlea /\ [][NextWlea]_vars


(***************************************************************************)
(* Specification: the three scoring methods side by side.  The scorers are *)
(* loaded with maps in which several learner links can match one reference *)
(* link; WLEA runs on the link lists of SpecWlea.                          *)
(***************************************************************************)
S4 == <<"4">>
LabelAUpper == <<"A">>

\* learner rows: the same link drawn twice with labels that differ in case,
\* and two many-to-one propositions that share a source and the target
RangeStudentRows ==
    { Row(<<"s", "1">>, S1, S2, LabelA),
      Row(<<"s", "7">>, S1, S2, LabelAUpper),
      Row(<<"s", "8">>, <<"1", " ", "2">>, S3, LabelA),
      Row(<<"s", "9">>, <<"1", " ", "4">>, S3, LabelA) }

\* reference rows: the link, and one proposition with three sources
RangeMasterRows ==
    { Row(<<"m", "1">>, S1, S2, LabelA),
      Row(<<"m", "4">>, <<"1", " ", "2", " ", "4">>, S3, LabelA) }

InitRangeScorer ==
    /\ pc = "init"
    /\ \/ /\ kwargs \in [cross_link_score : CrossLinkScorePool]
          /\ scorer = new_novak_scorer(kwargs.cross_link_score)
       \/ /\ kwargs = [cross_link_score |-> 0]
          /\ scorer = new_mcclure_scorer
    /\ master_data \in SeqsUpTo(RangeMasterRows, MaxScoreMasterRows) \ {<<>>}
    /\ student_data \in SeqsUpTo(RangeStudentRows, MaxScoreRows) \ {<<>>}
    /\ master_map = <<>>
    /\ student_map = <<>>
    /\ prop_score = Null
    /\ result = Null
    /\ history = <<>>
    /\ f_args = Null
    /\ ExecIdle /\ RegistryIdle
    /\ SolverIdle
    /\ NodesIdle
    /\ LogIdle

InitRange == InitRangeScorer \/ InitWlea

NextRange == LoadData \/ ScoreAll \/ ExecuteSimple \/ ExecuteFull

SpecRange == InitRange /\ [][NextRange]_vars

(***************************************************************************)
(* Properties of the range of the metrics                                  *)
(***************************************************************************)
InUnitInterval(rate) == rate.den > 0 /\ 0 <= rate.num /\ rate.num <= rate.den

MetricsInUnitInterval(r) ==
    /\ InUnitInterval(r.precision)
    /\ InUnitInterval(r.recall)
    /\ InUnitInterval(r.f_value)

\* C27: in every result produced by McClure, Novak or WLEA scoring,
\* precision, recall and f_value each lie between 0 and 1 inclusive; in
\* particular the number of learner links counted as perfect matches never
\* exceeds the number of reference links.
C27_MetricsInUnitInterval ==
    /\ Scored =>
          /\ MetricsInUnitInterval(result)
          /\ Cardinality(PerfectLinks) <= result.master_props
    /\ pc = "wlea_full" => MetricsInUnitInterval(result)


(***************************************************************************)
(* Properties relating the two brute-force solvers                         *)
(***************************************************************************)
\* C28: for every pair of reference and learner link lists, the lea_core and
\* the wlea_core calculate_optimal_matching_bruteforce return the same best
\* score, the same matching pairs in the same order and the same used-index
\* lists.
C28_SolversAgree ==
    /\ pc = "wlea" => matching = lea_calculate_optimal_matching_bruteforce(answers, students)
    /\ pc = "lea" => matching = wlea_calculate_optimal_matching_bruteforce(answers, students)

\* lea_core solved a case in which the best assignment takes the learner
\* links out of order
C28_Witness ==
    /\ pc = "lea"
    /\ Len(answers) >= 2
    /\ matching.best_score > 0
    /\ \E i, j \in DOMAIN matching.best_student_indices :
           i < j /\ matching.best_student_indices[i] > matching.best_student_indices[j]


(***************************************************************************)
(* Properties of the two WLEA result modes                                 *)
(***************************************************************************)
\* C30: for the same reference and learner links, WLEA's simple_score_only
\* mode and its full-metrics mode report the same raw_score,
\* max_possible_score, score_rate and matched_pairs; the flag only removes
\* the recall / precision / F / coverage fields.
C30_ModesReportSameScore ==
    \A j, k \in DOMAIN history :
        (history[j].args.simple_score_only /\ ~history[k].args.simple_score_only) =>
            LET simple == history[j].result
                full == history[k].result
            IN  /\ simple.raw_score = full.raw_score
                /\ simple.max_possible_score = full.max_possible_score
                /\ RatEq(simple.score_rate, full.score_rate)
                /\ simple.matched_pairs = full.matched_pairs

====
